------------------------------ MODULE Terminal ------------------------------
(***************************************************************************)
(* The App of the terminal client (crates/atra-tui): what a key does in    *)
(* which of its contexts, the requests it sends, and what it makes of      *)
(* their answers and of the changes of the thread it shows, while other    *)
(* clients and turns go on.                                                *)
(*                                                                         *)
(* The App is one loop (runtime.rs, run): each key, each answer, each      *)
(* change of a subscription is one step.  Requests run beside it; their    *)
(* answers come through one queue, in no order with the subscriptions.     *)
(* The text of inputs, scrolling, the mouse and the model's picker are     *)
(* left out, and a transcript is the numbers of its saved messages.        *)
(***************************************************************************)
EXTENDS Naturals, Sequences, FiniteSets, SequencesExt, TLC

CONSTANTS Order,      \* the threads in the order the Controller lists them
          Programs,   \* the processes a thread may have, in the order of its list
          Parent,     \* thread -> the thread it is an agent of, or None
          None,
          Mixes,      \* bound: what happens together, and how often
          MaxMessages \* bound: messages of a thread

VARIABLES
  app,        \* the App
  requests,   \* effects that run, each in a task of its own
  updates,    \* their answers, first in first out
  threads,    \* the threads there are, with the state that is published
  saved,      \* checkpoint -> its thread and number of messages
  deleted,    \* the threads there were
  mix, keys, steps

world == <<threads, saved, deleted>>
vars == <<app, requests, updates, world, mix, keys, steps>>

-----------------------------------------------------------------------------
(* What the Controller publishes of a thread, and a subscription to it.    *)

NoAsk == [kind |-> "none", id |-> 0]
NewThread == [turn |-> "none", ask |-> NoAsk, messages |-> 0, checkpoints |-> <<>>,
              processes |-> [p \in {} |-> "running"]]
Change(kind, state) == [kind |-> kind, state |-> state]
Subscription(t) == [thread |-> t, state |-> threads[t], feed |-> <<>>]
NoSubscription == [thread |-> None, state |-> NewThread, feed |-> <<>>]
Exists(t) == t \in DOMAIN threads

\* What a subscriber hears: the next change of its thread, or its end.
Hears(s, some, change) ==
  IF s.thread \in some THEN [s EXCEPT !.feed = Append(@, change)] ELSE s
\* "answer" is what the request that made the change tells the App, if one did.
Tell(some, change, answer) ==
  /\ app' = [app EXCEPT !.live = Hears(@, some, change)]
  /\ updates' = [i \in DOMAIN updates |->
                   [updates[i] EXCEPT !.subscription = Hears(@, some, change)]] \o answer
Publish(t, kind, state, answer) ==
  /\ threads' = [threads EXCEPT ![t] = state]
  /\ Tell({t}, Change(kind, state), answer)

Subtree(t) == {s \in DOMAIN threads : s = t \/ Parent[s] = t}
\* The threads of a subtree end, and their subscriptions with them.
DropThreads(gone, answer) ==
  /\ threads' = [t \in DOMAIN threads \ gone |-> threads[t]]
  /\ saved' = [k \in {k \in DOMAIN saved : saved[k].thread \notin gone} |-> saved[k]]
  /\ deleted' = deleted \cup gone
  /\ Tell(gone, Change("deleted", NewThread), answer)

-----------------------------------------------------------------------------
(* The App: its parts.                                                     *)

Idle == [k |-> "idle", id |-> 0, mode |-> "none"]
TurnState(k, id) == [Idle EXCEPT !.k = k, !.id = id]
QuestionForm(id) == [k |-> "form", id |-> id, mode |-> "normal"]

NoAction == [op |-> "none", checkpoint |-> 0, message |-> 0]
\* "asked" is what the user was asked about: the process that stops; for
\* threads it is bookkeeping, the App does not keep it.
NoOverlay == [k |-> "none", state |-> "browsing", row |-> 1, folded |-> {},
              action |-> NoAction, asked |-> None]
Overlay(k, state) == [NoOverlay EXCEPT !.k = k, !.state = state]

NoPicker == [selected |-> 0, loading |-> FALSE]
NoCheckpoint == [thread |-> None, id |-> 0]

Messages(n) == [i \in 1..n |-> i]
Listed(a) == SelectSeq(Order, LAMBDA t : t \in a.list)
\* visible_threads: each thread, then, unless it is folded, its agents
Rows(a) ==
  LET roots == SelectSeq(Listed(a), LAMBDA t : Parent[t] = None)
      Children(t) == SelectSeq(Listed(a), LAMBDA s : Parent[s] = t)
  IN FlattenSeq([i \in DOMAIN roots |->
       <<roots[i]>> \o (IF roots[i] \in a.overlay.folded THEN <<>> ELSE Children(roots[i]))])
Processes(a) == SelectSeq(Programs, LAMBDA p : p \in DOMAIN a.live.state.processes)
Clamp(row, n) == IF row <= n THEN row ELSE IF n = 0 THEN 1 ELSE n

ActiveTurn(a) == a.live.state.turn # "none"
AtCheckpoint(a) == a.picker.selected # 0
\* checkpoint: the one that is displayed, if a checkpoint is
Checkpoint(a) == IF AtCheckpoint(a) THEN a.checkpoint.id ELSE 0
PendingApproval(a) ==
  /\ a.live.state.ask.kind = "approval"
  /\ ~(a.turn.k = "resolving" /\ a.turn.id = a.live.state.ask.id)
TurnIsRunning(a) == a.turn.k # "idle" \/ ActiveTurn(a)

SyncTurnInteraction(a) ==
  LET ask == a.live.state.ask IN
  [a EXCEPT !.turn = IF ask.kind # "question" THEN Idle
                     ELSE IF @.k = "form" /\ @.id = ask.id THEN @ ELSE QuestionForm(ask.id)]

ResetView(a) == [a EXCEPT !.item = 0, !.focus = "input"]
\* Mutant of ResetToNewThread: the subscription to the last thread stays.
ResetAndListen(a) ==
  ResetView([a EXCEPT !.target = None, !.picker = NoPicker, !.checkpoint = NoCheckpoint,
                      !.process = None, !.turn = Idle, !.transcript = <<>>])
ResetToNewThread(a) ==
  ResetView([a EXCEPT !.target = None, !.picker = NoPicker, !.live = NoSubscription,
                      !.checkpoint = NoCheckpoint, !.process = None, !.turn = Idle,
                      !.transcript = <<>>])
\* A live thread is shown from its subscription.
ShowThread(a, s) ==
  ResetView([a EXCEPT !.target = s.thread, !.picker = NoPicker, !.live = s, !.process = None,
                      !.overlay = NoOverlay, !.transcript = Messages(s.state.messages)])

-----------------------------------------------------------------------------
(* What the App makes of a change and of an answer.                        *)

\* apply_thread_change: what becomes of the interaction with the turn
FollowTurn(a) ==
  LET s == a.live.state
      Current == a.turn.id = s.ask.id
      asks == s.ask.kind = "question"
  IN [a EXCEPT !.turn =
       CASE @.k = "starting" /\ s.turn # "none" /\ ~asks                      -> Idle
         [] @.k = "cancelling" /\ s.turn \in {"cancelling", "none"}            -> Idle
         [] @.k \in {"denying", "resolving"} ->
              IF s.ask.kind = "approval" /\ Current THEN @ ELSE Idle
         [] @.k = "form" /\ asks /\ Current                                    -> @
         [] @.k = "form" /\ ~asks                                              -> Idle
         [] OTHER -> IF asks THEN QuestionForm(s.ask.id)
                     ELSE IF s.turn = "none" THEN Idle ELSE @]

\* The transcript takes a change whether or not it shows a checkpoint.
FollowTranscript(a, change) ==
  [a EXCEPT !.transcript =
     CASE change.kind = "message"  -> Append(@, change.state.messages)
       [] change.kind = "replaced" -> Messages(change.state.messages)
       [] OTHER -> @]

HearChange ==
  /\ ~app.panicked /\ app.live.feed # <<>>
  /\ LET change == Head(app.live.feed)
         next == [app EXCEPT !.live.state = change.state, !.live.feed = Tail(@)]
     IN app' = IF change.kind = "deleted" THEN ResetToNewThread(app)
               ELSE IF app.target # app.live.thread THEN next
               ELSE FollowTurn(FollowTranscript(next, change))
  /\ UNCHANGED <<requests, updates, world, mix, keys, steps>>

\* The list of threads follows the Controller, sooner or later.
HearController ==
  /\ ~app.panicked /\ app.list # DOMAIN threads
  /\ app' = [app EXCEPT !.list = DOMAIN threads]
  /\ UNCHANGED <<requests, updates, world, mix, keys, steps>>

Fails(a) == [a EXCEPT !.error = TRUE]
\* Mutant of Browsing: the picker goes on waiting.
Waiting(a, k) == a
Browsing(a, k) == IF a.overlay.k = k THEN [a EXCEPT !.overlay.state = "browsing"] ELSE a
Closed(a) == [a EXCEPT !.overlay = NoOverlay]

\* Started, StreamFailed, ApprovalResolved, QuestionResolved, CancelCompleted
TurnUpdate(a, u) ==
  CASE u.k = "started" ->
         IF a.target # None THEN a
         ELSE [a EXCEPT !.target = u.thread, !.live = u.subscription,
                        !.transcript = Messages(u.subscription.state.messages)]
    [] u.k = "failed" ->
         Fails(SyncTurnInteraction(
           IF a.live.thread = None THEN a
           ELSE [a EXCEPT !.transcript = Messages(a.live.state.messages)]))
    [] u.k = "approval" ->
         IF u.ok THEN a
         ELSE Fails(IF a.turn = TurnState("resolving", u.id) THEN SyncTurnInteraction(a) ELSE a)
    [] u.k = "question" ->
         IF u.ok THEN a
         ELSE Fails(IF a.turn.k = "form" /\ a.turn.id = u.id THEN [a EXCEPT !.turn.mode = "confirm"]
                                                            ELSE a)
    [] u.k = "cancelled" ->
         IF u.ok \/ a.target # u.thread THEN a ELSE Fails(SyncTurnInteraction(a))

\* ThreadSelected, ThreadRenamed, ModelChanged, ThreadDeleted
ThreadUpdate(a, u) ==
  CASE u.k = "selected" ->
         IF u.ok THEN SyncTurnInteraction(ShowThread(a, u.subscription))
                 ELSE Fails(Browsing(a, "threads"))
    [] u.k = "set" ->
         LET done == IF a.overlay.k = "operation" /\ a.overlay.state = u.op THEN Closed(a) ELSE a
         IN IF u.ok THEN done ELSE Fails(done)
    [] u.k = "deleted" ->
         IF ~u.ok THEN Fails(Browsing(a, "threads"))
         ELSE LET left == IF u.op = "shown" \/ a.target = u.thread THEN ResetToNewThread(a) ELSE a
              IN IF a.overlay.k # "threads" THEN left
                 ELSE [left EXCEPT !.overlay.state = "browsing",
                                   !.overlay.row = Clamp(@, Cardinality(left.list))]

\* CheckpointsLoaded, CheckpointLoaded, HistoryChanged
HistoryUpdate(a, u) ==
  CASE u.k = "checkpoints" ->
         IF a.target # u.thread \/ a.overlay.k # "loading" THEN a
         ELSE IF ~u.ok THEN Fails(Closed(a))
         ELSE IF u.id = 0 THEN [a EXCEPT !.checkpoint = NoCheckpoint,
                                         !.overlay = Overlay("no checkpoints", "browsing")]
         ELSE [ResetView(Closed(a)) EXCEPT
                 !.checkpoint = [thread |-> u.thread, id |-> u.id],
                 !.picker = [selected |-> u.id, loading |-> FALSE],
                 !.transcript = Messages(u.messages), !.focus = "checkpoints"]
    [] u.k = "checkpoint" ->
         IF ~AtCheckpoint(a) \/ a.picker.selected # u.id THEN a
         ELSE IF ~u.ok THEN Fails([a EXCEPT !.picker.loading = FALSE])
         ELSE IF a.target # u.thread THEN a
         ELSE [ResetView(a) EXCEPT
                 !.checkpoint = [thread |-> u.thread, id |-> u.id], !.picker.loading = FALSE,
                 !.transcript = Messages(u.messages), !.focus = "checkpoints"]
    [] u.k = "history" ->
         IF a.target # u.source THEN a
         ELSE IF ~u.ok THEN Fails(Closed(a))
         ELSE SyncTurnInteraction(ShowThread(a, u.subscription))

\* ProcessesLoaded, ProcessStopped
ProcessUpdate(a, u) ==
  LET rows == Processes(a) IN
  CASE u.k = "process" ->
         LET ready == [a EXCEPT !.picking = FALSE] IN
         IF a.target # u.thread THEN ready
         ELSE IF ~u.ok THEN IF a.overlay.k = "processes" THEN Fails(ready) ELSE ready
         ELSE LET shown == [ready EXCEPT !.process = u.process] IN
              IF a.overlay.k # "processes" THEN shown
              ELSE [shown EXCEPT !.overlay.row =
                      IF Contains(rows, u.process)
                      THEN CHOOSE i \in DOMAIN rows : rows[i] = u.process
                      ELSE Clamp(@, Len(rows))]
    [] u.k = "stopped" ->
         IF a.target # u.thread THEN a
         ELSE LET shown == IF u.ok THEN [a EXCEPT !.process = None] ELSE Fails(a)
                  free == Browsing(shown, "processes")
              IN IF u.ok /\ a.overlay.k = "processes"
                 THEN [free EXCEPT !.overlay.row = Clamp(@, Len(rows))] ELSE free

Update ==
  /\ ~app.panicked /\ updates # <<>>
  /\ LET u == Head(updates) IN
     app' = CASE u.k \in {"started", "failed", "approval", "question", "cancelled"} -> TurnUpdate(app, u)
              [] u.k \in {"selected", "set", "deleted"}        -> ThreadUpdate(app, u)
              [] u.k \in {"checkpoints", "checkpoint", "history"} -> HistoryUpdate(app, u)
              [] u.k \in {"process", "stopped"}                -> ProcessUpdate(app, u)
  /\ updates' = Tail(updates)
  /\ UNCHANGED <<requests, world, mix, keys, steps>>

-----------------------------------------------------------------------------
(* Keys.  Which part of handle_key takes a key depends on all of the App.  *)

Context ==
  CASE app.panicked -> "panicked"
    [] app.error -> "error"
    [] app.overlay.k # "none" -> app.overlay.k
    [] app.turn.k = "form" -> "form"
    [] app.turn.k = "denying" -> "denying"
    [] PendingApproval(app) -> "approval"
    [] AtCheckpoint(app) -> "checkpoint"
    [] OTHER -> "prompt"

Request(k, thread, id) ==
  [k |-> k, stage |-> 0, thread |-> thread, id |-> id, source |-> thread, op |-> "none",
   action |-> NoAction, process |-> None, recursive |-> FALSE, then |-> None, asked |-> None]
Answer(r, ok) ==
  [k |-> r.k, ok |-> ok, thread |-> r.thread, source |-> r.source, id |-> r.id, op |-> r.op,
   process |-> r.process, messages |-> 0, subscription |-> NoSubscription]

Press(group) == /\ group \in mix.groups /\ keys < mix.keys /\ keys' = keys + 1
                /\ UNCHANGED <<updates, world, mix, steps>>
Becomes(a) == app' = a /\ UNCHANGED requests
Sends(a, some) == app' = a /\ requests' = requests \o some

DismissError == Press("any") /\ Context = "error" /\ Becomes([app EXCEPT !.error = FALSE])

OpenPalette ==
  /\ Press("any") /\ ~app.panicked /\ ~app.error /\ app.overlay.k = "none"
  /\ Becomes([app EXCEPT !.overlay = Overlay("palette", "browsing")])
\* Esc, where it only closes
Close ==
  /\ Press("any")
  /\ Context \in {"palette", "help", "loading", "no checkpoints", "confirm", "rename", "model",
                  "threads", "processes"}
  /\ app.overlay.state = "browsing"
  /\ Becomes(Closed(app))

\* cancel_turn: a turn that is not yet shown to run is not cancelled.
CancelTurn ==
  Sends([Closed(app) EXCEPT !.turn = TurnState("cancelling", 0)],
        IF ActiveTurn(app) THEN <<Request("cancelled", app.target, 0)>> ELSE <<>>)
EscCancels ==
  /\ Press("turn") /\ Context \in {"form", "approval", "checkpoint", "prompt"}
  /\ TurnIsRunning(app) /\ (Context = "form" => app.turn.mode = "normal")
  /\ CancelTurn
CtrlC ==
  /\ Press("turn") /\ TurnIsRunning(app)
  /\ Context \in {"palette", "denying", "approval", "rename", "model", "threads", "confirm",
                  "checkpoint", "prompt"}
  /\ CancelTurn

Send ==
  /\ Press("turn") /\ Context = "prompt" /\ app.focus = "input" /\ ~TurnIsRunning(app)
  /\ Sends([app EXCEPT !.turn = TurnState("starting", 0)],
           <<[Request("failed", app.target, 0) EXCEPT
                !.op = IF app.target = None THEN "create" ELSE "send"]>>)

Allow ==
  /\ Press("turn") /\ Context = "approval"
  /\ LET id == app.live.state.ask.id IN
     Sends([app EXCEPT !.turn = TurnState("resolving", id)], <<Request("approval", None, id)>>)
Deny ==
  /\ Press("turn")
  /\ \/ Context = "approval"
        /\ Becomes([app EXCEPT !.turn = TurnState("denying", app.live.state.ask.id)])
     \/ Context = "denying" /\ Becomes(SyncTurnInteraction(app))
     \/ Context = "denying"
        /\ IF PendingApproval(app) /\ app.live.state.ask.id = app.turn.id
           THEN Sends([app EXCEPT !.turn.k = "resolving"], <<Request("approval", None, app.turn.id)>>)
           ELSE Becomes(app)
\* handle_question_key; the answers themselves are left out
AnswerForm ==
  /\ Press("turn") /\ Context = "form"
  /\ CASE app.turn.mode = "normal"     -> Becomes([app EXCEPT !.turn.mode = "confirm"])
       [] app.turn.mode = "confirm"    ->
            \/ Becomes([app EXCEPT !.turn.mode = "normal"])
            \/ Sends([app EXCEPT !.turn.mode = "submitting"], <<Request("question", None, app.turn.id)>>)
       [] app.turn.mode = "submitting" -> FALSE

\* Enter in the palette: execute_command.  A command that cannot be run is an error.
Command(group, Allowed, Run) ==
  /\ Press(group) /\ Context = "palette"
  /\ IF Allowed THEN Run ELSE Becomes(Fails(Closed(app)))
OnThread == app.target # None
Quiet == OnThread /\ ~TurnIsRunning(app)
Operation(op) == Overlay("operation", op)

NewCommand == Command("threads", TRUE, Becomes(Closed(ResetToNewThread(app))))
\* continue_thread, compact_thread
ContinueCommand ==
  Command("turn", Quiet /\ Checkpoint(app) = 0,
    Sends([Closed(app) EXCEPT !.turn = TurnState("starting", 0)],
          <<[Request("failed", app.target, 0) EXCEPT !.op = "continue"]>>))
HelpCommand == Command("help", TRUE, Becomes([app EXCEPT !.overlay = Overlay("help", "browsing")]))

-----------------------------------------------------------------------------
(* The threads.                                                            *)

ThreadCommand ==
  LET folded == {t \in app.list : /\ Parent[t] = None
                                  /\ app.target \in app.list => Parent[app.target] # t}
      open == [app EXCEPT !.overlay = [Overlay("threads", "browsing") EXCEPT !.folded = folded]]
      here == {i \in DOMAIN Rows(open) : Rows(open)[i] = app.target}
  IN Command("threads", TRUE,
       Becomes([open EXCEPT !.overlay.row = IF here = {} THEN 1 ELSE CHOOSE i \in here : TRUE]))

\* Every key first keeps the row within the list.
Row == Clamp(app.overlay.row, Len(Rows(app)))
Browses(state, next) ==
  /\ Press("threads") /\ Context = "threads" /\ app.overlay.state = state /\ next
MoveThread ==
  \E row \in {Row - 1, Row + 1} \cap DOMAIN Rows(app) :
    Browses("browsing", Becomes([app EXCEPT !.overlay.row = row]))
\* Right unfolds a thread, Left folds one, or moves to the thread it is an agent of.
FoldThread ==
  /\ Row \in DOMAIN Rows(app)
  /\ LET t == Rows(app)[Row]
         folds == t \notin app.overlay.folded /\ \E s \in app.list : Parent[s] = t
         Fold(some) == [app EXCEPT !.overlay.row = Row, !.overlay.folded = some]
     IN Browses("browsing",
          \/ Becomes(Fold(app.overlay.folded \ {t}))
          \/ folds /\ Becomes(Fold(app.overlay.folded \cup {t}))
          \/ \E i \in DOMAIN Rows(app) :
               ~folds /\ Rows(app)[i] = Parent[t] /\ Becomes([app EXCEPT !.overlay.row = i]))
SelectThread ==
  /\ Row \in DOMAIN Rows(app)
  /\ Browses("browsing",
       Sends([app EXCEPT !.overlay.row = Row, !.overlay.state = "selecting"],
             <<Request("selected", Rows(app)[Row], 0)>>))
AskToDelete ==
  /\ Rows(app) # <<>>
  /\ Browses("browsing",
       Becomes([app EXCEPT !.overlay.row = Row, !.overlay.state = "confirming",
                           !.overlay.asked = Rows(app)[Row]]))
\* The row of the moment is deleted, and its agents with it.
ConfirmDelete ==
  Browses("confirming",
    IF Rows(app) = <<>> THEN Becomes([app EXCEPT !.overlay.row = 1, !.overlay.state = "browsing"])
    ELSE LET t == Rows(app)[Row]
             inside == app.target = t \/ (app.target \in app.list /\ Parent[app.target] = t) IN
         Sends([app EXCEPT !.overlay.row = Row, !.overlay.state = "deleting"],
               <<[Request("deleted", t, 0) EXCEPT
                    !.op = IF inside THEN "shown" ELSE "other",
                    !.recursive = \E s \in app.list : Parent[s] = t,
                    !.then = IF inside /\ t \in app.list THEN Parent[t] ELSE None,
                    !.asked = app.overlay.asked]>>))
RefuseDelete == Browses("confirming", Becomes([app EXCEPT !.overlay.state = "browsing"]))

\* Ctrl-R and Alt-M replace most overlays, whatever they wait for.
OpenSettings ==
  /\ Press("settings")
  /\ Context \in {"checkpoint", "prompt", "rename", "model", "threads", "confirm"}
  /\ \/ OnThread /\ Becomes([app EXCEPT !.overlay = Overlay("rename", "browsing"), !.focus = "input"])
     \/ Becomes([app EXCEPT !.overlay = Overlay("model", "browsing")])
\* rename, change_model
ChangeSettings ==
  /\ Press("settings") /\ Context \in {"rename", "model"}
  /\ IF OnThread THEN Sends([app EXCEPT !.overlay = Operation(Context)],
                            <<[Request("set", app.target, 0) EXCEPT !.op = Context]>>)
     ELSE Becomes(IF Context = "rename" THEN Fails(app) ELSE Closed(app))

-----------------------------------------------------------------------------
(* History: checkpoints, forks, rewinds.                                   *)

HistoryRequest(op, checkpoint, message) ==
  [Request("history", app.target, checkpoint) EXCEPT
     !.action = [op |-> op, checkpoint |-> checkpoint, message |-> message]]

CreateCheckpointCommand ==
  Command("history", Quiet /\ Checkpoint(app) = 0,
    Sends([app EXCEPT !.overlay = Operation("create")], <<HistoryRequest("create", 0, 0)>>))
CheckpointsCommand ==
  Command("history", Quiet,
    Sends([app EXCEPT !.overlay = Overlay("loading", "browsing")],
          <<Request("checkpoints", app.target,
                    IF app.live.state.checkpoints = <<>> THEN 0
                    ELSE Head(app.live.state.checkpoints))>>))

\* A click, or the arrows, select a message of the transcript.
SelectMessage ==
  /\ Press("history") /\ Context \in {"checkpoint", "prompt"}
  /\ \E i \in DOMAIN app.transcript :
       i # app.item /\ Becomes([app EXCEPT !.item = i, !.focus = "transcript"])
\* selected_history_point indexes the transcript with the selected item.
OnMessage(Run(_)) ==
  IF app.item = 0 THEN Becomes(Fails(Closed(app)))
  ELSE IF app.item \notin DOMAIN app.transcript THEN Becomes([app EXCEPT !.panicked = TRUE])
  ELSE Run(app.transcript[app.item])
ForkCommand ==
  Command("history", Quiet,
    OnMessage(LAMBDA m : Sends([app EXCEPT !.overlay = Operation("fork")],
                               <<HistoryRequest("fork", Checkpoint(app), m)>>)))
AskFor(op, checkpoint, message) ==
  Becomes([app EXCEPT !.overlay =
             [Overlay("confirm", "browsing") EXCEPT
                !.action = [op |-> op, checkpoint |-> checkpoint, message |-> message],
                !.asked = app.target]])
RewindCommand ==
  Command("history", ~TurnIsRunning(app),
    OnMessage(LAMBDA m : AskFor("rewind", Checkpoint(app), m)))
RestoreCommand ==
  Command("history", ~TurnIsRunning(app) /\ Checkpoint(app) # 0,
    AskFor("restore", Checkpoint(app), 0))
\* run_history_action: in the thread that is shown by now
ConfirmHistory ==
  /\ Press("history") /\ Context = "confirm"
  /\ LET action == app.overlay.action IN
     IF ~OnThread THEN Becomes(Fails(Closed(app)))
     ELSE Sends([app EXCEPT !.overlay = Operation(action.op)],
                <<[HistoryRequest(action.op, action.checkpoint, action.message) EXCEPT
                     !.asked = app.overlay.asked]>>)

MoveCheckpoint ==
  /\ Press("history") /\ Context = "checkpoint" /\ app.focus = "checkpoints"
  /\ LET list == app.live.state.checkpoints
         here == {i \in DOMAIN list : list[i] = app.picker.selected}
         at == IF here = {} THEN 1 ELSE CHOOSE i \in here : TRUE
     IN \E i \in {Clamp(at + 1, Len(list)), IF at = 1 THEN 1 ELSE at - 1} \cap DOMAIN list :
          /\ list[i] # app.picker.selected
          /\ Sends([app EXCEPT !.picker = [selected |-> list[i], loading |-> TRUE]],
                   <<Request("checkpoint", None, list[i])>>)
LeaveCheckpoint ==
  /\ Press("history") /\ Context = "checkpoint" /\ ~TurnIsRunning(app)
  /\ Sends([app EXCEPT !.picker = NoPicker], <<Request("selected", app.target, 0)>>)

-----------------------------------------------------------------------------
(* The processes of the thread.                                            *)

\* select_process: one request at a time; what is selected meanwhile is not asked for.
SelectProcess(a) ==
  IF a.target = None THEN Becomes([a EXCEPT !.process = None])
  ELSE IF a.picking THEN Becomes(a)
  ELSE Sends([a EXCEPT !.picking = TRUE],
             <<[Request("process", a.target, 0) EXCEPT
                  !.process = IF a.overlay.row \in DOMAIN Processes(a)
                              THEN Processes(a)[a.overlay.row] ELSE None]>>)

ProcessesCommand ==
  Command("processes", OnThread,
    SelectProcess([app EXCEPT !.overlay = Overlay("processes", "browsing")]))
Handles(state, next) ==
  /\ Press("processes") /\ Context = "processes" /\ app.overlay.state = state /\ next
MoveProcess ==
  \E row \in {Clamp(app.overlay.row + 1, Len(Processes(app))),
              IF app.overlay.row = 1 THEN 1 ELSE app.overlay.row - 1} \ {app.overlay.row} :
    Handles("browsing", SelectProcess([app EXCEPT !.overlay.row = row, !.process = None]))
AskToStop ==
  /\ app.overlay.row \in DOMAIN Processes(app)
  /\ LET p == Processes(app)[app.overlay.row] IN
     /\ app.live.state.processes[p] = "running"
     /\ Handles("browsing", Becomes([app EXCEPT !.overlay.state = "confirming", !.overlay.asked = p]))
\* The thread is asked for only now, and must be there.
ConfirmStop ==
  Handles("confirming",
    IF ~OnThread THEN Becomes([app EXCEPT !.panicked = TRUE])
    ELSE Sends([app EXCEPT !.overlay.state = "stopping"],
               <<[Request("stopped", app.target, 0) EXCEPT !.process = app.overlay.asked]>>))
RefuseStop == Handles("confirming", Becomes([app EXCEPT !.overlay.state = "browsing"]))

Key ==
  \/ DismissError \/ OpenPalette \/ Close \/ EscCancels \/ CtrlC \/ Send \/ Allow \/ Deny
  \/ AnswerForm \/ NewCommand \/ ContinueCommand \/ HelpCommand \/ ThreadCommand \/ MoveThread
  \/ FoldThread \/ SelectThread \/ AskToDelete \/ ConfirmDelete \/ RefuseDelete \/ OpenSettings
  \/ ChangeSettings \/ CreateCheckpointCommand \/ CheckpointsCommand \/ SelectMessage
  \/ ForkCommand \/ RewindCommand \/ RestoreCommand \/ ConfirmHistory \/ MoveCheckpoint
  \/ LeaveCheckpoint \/ ProcessesCommand \/ MoveProcess \/ AskToStop \/ ConfirmStop \/ RefuseStop

-----------------------------------------------------------------------------
(* The tasks of the requests.  Each asks the Controller, and answers once. *)

Task(k, op, stage, Do(_, _)) ==
  \E i \in DOMAIN requests :
    LET r == requests[i] IN
    /\ r.k = k /\ r.op \in op /\ r.stage = stage /\ Do(i, r)
    /\ UNCHANGED <<mix, keys, steps>>
Done(i) == requests' = RemoveAt(requests, i)
Continues(i, r) == requests' = [requests EXCEPT ![i] = r]
Says(answer) == updates' = Append(updates, answer) /\ UNCHANGED <<app, world>>
Refused(i, r) == Done(i) /\ Says(Answer(r, FALSE))
AnyOp == {"none", "create", "send", "continue", "rename", "model", "shown", "other"}

Subscribed(r, k, t) == [Answer(r, TRUE) EXCEPT !.k = k, !.thread = t, !.subscription = Subscription(t)]
\* The command changes a thread, and is answered in the same step.
Changes(r, t, kind, state) ==
  /\ Publish(t, kind, state, <<Answer(r, TRUE)>>) /\ UNCHANGED <<saved, deleted>>

Selects == Task("selected", AnyOp, 0, LAMBDA i, r :
  IF Exists(r.thread) THEN Done(i) /\ Says(Subscribed(r, "selected", r.thread)) ELSE Refused(i, r))

Sets == Task("set", AnyOp, 0, LAMBDA i, r :
  IF Exists(r.thread) THEN Done(i) /\ Says(Answer(r, TRUE)) ELSE Refused(i, r))

\* After the deletion the task subscribes to the thread it was an agent of.
DeletesThread == Task("deleted", AnyOp, 0, LAMBDA i, r :
  IF ~Exists(r.thread) \/ (~r.recursive /\ Subtree(r.thread) # {r.thread}) THEN Refused(i, r)
  ELSE /\ DropThreads(Subtree(r.thread), <<Answer(r, TRUE)>>)
       /\ IF r.then = None THEN Done(i) ELSE Continues(i, Request("selected", r.then, 0)))

\* send_turn: a new thread is created, subscribed to and shown, then it is sent to.
Unused == ToSet(Order) \ (DOMAIN threads \cup deleted)
UnusedRoots == {t \in Unused : Parent[t] = None}
Creates == Task("failed", {"create"}, 0, LAMBDA i, r :
  IF UnusedRoots = {} THEN Refused(i, r)
  ELSE \E t \in UnusedRoots :
         /\ threads' = threads @@ (t :> NewThread)
         /\ Continues(i, [r EXCEPT !.thread = t, !.stage = 1])
         /\ UNCHANGED <<app, updates, saved, deleted>>)
Starts == Task("failed", {"create"}, 1, LAMBDA i, r :
  IF Exists(r.thread)
  THEN /\ Continues(i, [r EXCEPT !.op = "send", !.stage = 0])
       /\ Says(Subscribed(r, "started", r.thread))
  ELSE Refused(i, r))
\* ThreadSend, ThreadContinue and ThreadCompact say nothing but that they failed.
SendsTurn == Task("failed", {"send", "continue"}, 0, LAMBDA i, r :
  IF ~Exists(r.thread) \/ threads[r.thread].turn # "none" THEN Refused(i, r)
  ELSE /\ Done(i)
       /\ Publish(r.thread, "turn", [threads[r.thread] EXCEPT !.turn = "running"], <<>>)
       /\ UNCHANGED <<saved, deleted>>)
Cancels == Task("cancelled", AnyOp, 0, LAMBDA i, r :
  IF ~Exists(r.thread) \/ threads[r.thread].turn = "none" THEN Refused(i, r)
  ELSE Done(i) /\ Changes(r, r.thread, "turn", [threads[r.thread] EXCEPT !.turn = "cancelling"]))
Asking(kind, id) == {t \in DOMAIN threads : threads[t].ask = [kind |-> kind, id |-> id]}
Resolves == \E kind \in {"approval", "question"} : Task(kind, AnyOp, 0, LAMBDA i, r :
  IF Asking(kind, r.id) = {} THEN Refused(i, r)
  ELSE \E t \in Asking(kind, r.id) :
         Done(i) /\ Changes(r, t, "turn", [threads[t] EXCEPT !.ask = NoAsk]))

ReadsCheckpoint == \E k \in {"checkpoints", "checkpoint"} : Task(k, AnyOp, 0, LAMBDA i, r :
  IF r.id \in DOMAIN saved
  THEN Done(i) /\ Says([Answer(r, TRUE) EXCEPT !.messages = saved[r.id].messages,
                                               !.thread = saved[r.id].thread])
  ELSE IF r.id = 0 THEN Done(i) /\ Says(Answer(r, TRUE)) ELSE Refused(i, r))

\* The command of a history request; what it made is subscribed to afterwards.
NextCheckpoint == Max(DOMAIN saved \cup {0}) + 1
Saves(t) == saved' = saved @@ (NextCheckpoint :> [thread |-> t, messages |-> threads[t].messages])
Replaced(t, n) == [threads[t] EXCEPT !.messages = n, !.checkpoints = <<NextCheckpoint>> \o @]
From(r) == IF r.id = 0 THEN threads[r.thread].messages
           ELSE IF r.id \in DOMAIN saved /\ saved[r.id].thread = r.thread THEN saved[r.id].messages ELSE 0
ChangesHistory == Task("history", AnyOp, 0, LAMBDA i, r :
  LET t == r.thread
      m == r.action.message
      Then(result) == Continues(i, [r EXCEPT !.stage = 1, !.thread = result]) IN
  IF \/ ~Exists(t) \/ (r.action.op # "fork" /\ threads[t].turn # "none")
     \/ r.action.op \in {"fork", "rewind"} /\ m > From(r)
     \/ r.action.op = "restore" /\ (r.id \notin DOMAIN saved \/ saved[r.id].thread # t)
     \/ r.action.op = "fork" /\ UnusedRoots = {}
  THEN Refused(i, r)
  ELSE CASE r.action.op = "fork" ->
              \E new \in UnusedRoots :
                /\ Then(new) /\ threads' = threads @@ (new :> [NewThread EXCEPT !.messages = m - 1])
                /\ UNCHANGED <<app, updates, saved, deleted>>
         [] OTHER ->
              LET n == CASE r.action.op = "create"  -> threads[t].messages
                         [] r.action.op = "rewind"  -> m - 1
                         [] r.action.op = "restore" -> saved[r.id].messages IN
              /\ Then(t) /\ Saves(t) /\ UNCHANGED deleted
              /\ Publish(t, IF r.action.op = "create" THEN "turn" ELSE "replaced", Replaced(t, n), <<>>))
ShowsHistory == Task("history", AnyOp, 1, LAMBDA i, r :
  IF Exists(r.thread) THEN Done(i) /\ Says(Subscribed(r, "history", r.thread)) ELSE Refused(i, r))

Has(r) == Exists(r.thread) /\ r.process \in DOMAIN threads[r.thread].processes
ReadsProcess == Task("process", AnyOp, 0, LAMBDA i, r :
  IF r.process = None \/ Has(r) THEN Done(i) /\ Says(Answer(r, TRUE)) ELSE Refused(i, r))
Stops == Task("stopped", AnyOp, 0, LAMBDA i, r :
  IF Has(r) /\ threads[r.thread].processes[r.process] = "running"
  THEN /\ Done(i)
       /\ Changes(r, r.thread, "turn", [threads[r.thread] EXCEPT !.processes[r.process] = "exited"])
  ELSE Refused(i, r))

Tasks == \/ Selects \/ Sets \/ DeletesThread \/ Creates \/ Starts \/ SendsTurn \/ Cancels
         \/ Resolves \/ ReadsCheckpoint \/ ChangesHistory \/ ShowsHistory \/ ReadsProcess \/ Stops

-----------------------------------------------------------------------------
(* Turns, processes and other clients.                                     *)

Elsewhere(kind) == /\ kind \in mix.elsewhere /\ steps < mix.steps /\ steps' = steps + 1
                   /\ UNCHANGED <<requests, mix, keys>>
Turn(t, kind, state) == Publish(t, kind, state, <<>>) /\ UNCHANGED <<saved, deleted>>

StartsElsewhere == \E t \in DOMAIN threads :
  /\ threads[t].turn = "none" /\ Elsewhere("turns")
  /\ Turn(t, "turn", [threads[t] EXCEPT !.turn = "running"])
Appends == \E t \in DOMAIN threads :
  /\ threads[t].turn = "running" /\ threads[t].messages < MaxMessages /\ Elsewhere("messages")
  /\ Turn(t, "message", [threads[t] EXCEPT !.messages = @ + 1])
Asks == \E t \in DOMAIN threads, kind \in {"approval", "question"} :
  /\ threads[t].turn = "running" /\ threads[t].ask = NoAsk /\ Elsewhere("asks")
  /\ Turn(t, "turn", [threads[t] EXCEPT !.ask = [kind |-> kind, id |-> steps']])
AnswersElsewhere == \E t \in DOMAIN threads :
  /\ threads[t].ask # NoAsk /\ Elsewhere("asks")
  /\ Turn(t, "turn", [threads[t] EXCEPT !.ask = NoAsk])
CancelsElsewhere == \E t \in DOMAIN threads :
  /\ threads[t].turn = "running" /\ Elsewhere("turns")
  /\ Turn(t, "turn", [threads[t] EXCEPT !.turn = "cancelling"])
Ends == \E t \in DOMAIN threads :
  /\ \/ threads[t].turn = "cancelling"
     \/ threads[t].turn = "running" /\ threads[t].ask = NoAsk
  /\ Elsewhere("turns")
  /\ Turn(t, "turn", [threads[t] EXCEPT !.turn = "none", !.ask = NoAsk])
RewindsElsewhere == \E t \in DOMAIN threads :
  /\ threads[t].turn = "none" /\ threads[t].messages > 0 /\ Elsewhere("history")
  /\ Saves(t) /\ Publish(t, "replaced", Replaced(t, threads[t].messages - 1), <<>>)
  /\ UNCHANGED deleted
DeletesElsewhere == \E t \in DOMAIN threads :
  Elsewhere("deletions") /\ DropThreads(Subtree(t), <<>>)
CreatesElsewhere == \E t \in Unused :
  /\ Parent[t] \in DOMAIN threads \cup {None} /\ Elsewhere("creations")
  /\ threads' = threads @@ (t :> NewThread) /\ UNCHANGED <<app, updates, saved, deleted>>
ProcessStarts == \E t \in DOMAIN threads : \E p \in ToSet(Programs) \ DOMAIN threads[t].processes :
  /\ Elsewhere("processes")
  /\ Turn(t, "turn", [threads[t] EXCEPT !.processes = @ @@ (p :> "running")])
ProcessExits == \E t \in DOMAIN threads : \E p \in DOMAIN threads[t].processes :
  /\ threads[t].processes[p] = "running" /\ Elsewhere("processes")
  /\ Turn(t, "turn", [threads[t] EXCEPT !.processes[p] = "exited"])
\* A request is refused for another reason, or its connection is lost.
Loses == \E i \in DOMAIN requests :
  /\ "failures" \in mix.elsewhere /\ steps < mix.steps /\ steps' = steps + 1
  /\ Refused(i, requests[i]) /\ UNCHANGED <<mix, keys>>

World == StartsElsewhere \/ Appends \/ Asks \/ AnswersElsewhere \/ CancelsElsewhere \/ Ends
         \/ RewindsElsewhere \/ DeletesElsewhere \/ CreatesElsewhere \/ ProcessStarts
         \/ ProcessExits \/ Loses

\* App::load shows the first thread of the list.
NewApp(t) ==
  [target |-> t, list |-> DOMAIN threads, live |-> Subscription(t), picker |-> NoPicker,
   checkpoint |-> NoCheckpoint, process |-> None, picking |-> FALSE,
   transcript |-> Messages(threads[t].messages), item |-> 0, focus |-> "input",
   turn |-> Idle, overlay |-> NoOverlay, error |-> FALSE, panicked |-> FALSE]

First == CHOOSE t \in mix.threads : Parent[t] = None
Init ==
  /\ mix \in Mixes /\ keys = 0 /\ steps = 0
  /\ saved = IF "history" \in mix.groups THEN 1 :> [thread |-> First, messages |-> 1] ELSE <<>>
  /\ threads = [t \in mix.threads |->
                  [NewThread EXCEPT !.messages = 1,
                                    !.checkpoints = IF t = First /\ saved # <<>> THEN <<1>> ELSE <<>>]]
  /\ deleted = {}
  /\ requests = <<>> /\ updates = <<>>
  /\ app = NewApp(First)

Loop == HearChange \/ HearController \/ Update
Next == Key \/ Tasks \/ Loop \/ World
Spec == Init /\ [][Next]_vars
\* The loop serves what there is, and every request is answered.
FairSpec == Spec /\ WF_vars(Loop) /\ WF_vars(Tasks)

-----------------------------------------------------------------------------
(* Properties.                                                             *)

\* What is shown belongs to the thread that is the target: the subscription
\* whose turn is cancelled and answered, the checkpoint that a rewind starts
\* from, the process whose output is shown.  cancel_turn asserts it in part
\* ("active turn belongs to a thread").  A second /checkpoints may take the
\* displayed checkpoint away: its late answer is that there is none.
ShownBelongsToTarget ==
  /\ app.live.thread = app.target
  /\ AtCheckpoint(app) => app.target # None /\ app.checkpoint.thread \in {app.target, None}
  /\ app.process # None =>
       /\ app.target # None
       /\ app.process \in DOMAIN app.live.state.processes

\* What the user is writing or has sent answers the interaction that the
\* turn, as the App knows it, is waiting for: apply_thread_change and
\* sync_turn_interaction leave no form of another interaction behind.
InteractionIsCurrent ==
  app.turn.k \in {"form", "denying", "resolving"} =>
    app.live.state.ask = [kind |-> IF app.turn.k = "form" THEN "question" ELSE "approval",
                          id |-> app.turn.id]

\* A request for the history of a thread names a checkpoint of that thread,
\* and the user was asked about that thread; unless that one was deleted and a
\* new thread took its place under the question.
HistoryIsOfTarget ==
  \A i \in DOMAIN requests :
    LET r == requests[i] IN
    r.k = "history" /\ r.asked \notin deleted =>
      /\ r.id \in DOMAIN saved => saved[r.id].thread = r.source
      /\ r.asked \in {None, r.source}

\* What the App waits for, taking no keys, comes to an end: unless its thread
\* was deleted, the answer or a change of the thread takes it out.
Waits ==
  \/ app.overlay.k = "operation"
  \/ app.overlay.state \in {"selecting", "deleting", "stopping"}
  \/ app.turn.k \in {"starting", "resolving"} \/ app.turn.mode = "submitting"
WaitsEnd == []<>(Waits => app.target = None \/ app.panicked)

\* What the App shows, asks and requests belongs to its thread as it knows it.
AppFollowsTarget == ShownBelongsToTarget /\ InteractionIsCurrent /\ HistoryIsOfTarget

\* The thread that is deleted is the one whose row "x" was pressed on.
DeletesTheConfirmed ==
  \A i \in DOMAIN requests : requests[i].k = "deleted" => requests[i].thread = requests[i].asked
=============================================================================
