------------------------------ MODULE WebShell ------------------------------
(***************************************************************************)
(* The shell of the web client (crates/atra-web-ui, main.rs): the route    *)
(* and the browser's session history, the drawers of a narrow screen, the  *)
(* list of Workspaces and what is known of each one's Controller, the      *)
(* pins, the marks of threads that want attention, the page of the thread  *)
(* on show with its dialog and its preview of a checkpoint, and the        *)
(* commands whose answers change these.                                    *)
(*                                                                         *)
(* The browser runs one callback at a time: each event, each answer and    *)
(* each run of an effect is a step.  What goes on behind it is the         *)
(* Controllers' own: threads are created and deleted, Workspaces stop.     *)
(*                                                                         *)
(* Bounds, of a scenario: what the user does (clicks), what happens to the *)
(* Controllers (changes), what of both is possible, the checkpoints.  One  *)
(* command is under way at a time.                                         *)
(***************************************************************************)
EXTENDS Integers, Sequences, FiniteSets, SequencesExt, Functions

CONSTANTS Workspaces, Scenarios, MaxThreads

NoWorkspace == "none"
Statuses == {"idle", "running", "approval", "completed"}
Panels == {"navigation", "utility"}
NoPanel == "none"

Route == [workspace : Workspaces \cup {NoWorkspace}, thread : 0..MaxThreads, detail : 0..2]
Home == [workspace |-> NoWorkspace, thread |-> 0, detail |-> 0]
ThreadRoute(w, t) == [workspace |-> w, thread |-> t, detail |-> 0]

\* DialogState, and the checkpoint its history is taken from
NoDialog == [kind |-> "none", checkpoint |-> 0, content |-> 0]
NoCommand == [kind |-> "none", workspace |-> NoWorkspace, thread |-> 0, answer |-> 0,
              phase |-> "none", alive |-> FALSE]
NoPage == [thread |-> 0, dialog |-> NoDialog, preview |-> 0]

VARIABLES scenario, clicks, changes,
          running, threads, issued,           \* the Controllers
          streams, known, controllers,        \* what reaches the browser of them
          attention, resynced, pins, saved, history, route, panel, backs, page, command

world   == <<running, threads, issued>>
remote  == <<streams, known, controllers, attention, resynced>>
shell   == <<saved, history, route, panel, backs, page, command>>
bounds  == <<scenario, clicks, changes>>
vars    == <<bounds, world, remote, pins, shell>>

-----------------------------------------------------------------------------
(* Controllers and the streams of their events.                            *)

Entry(parent, status) == [parent |-> parent, status |-> status]

\* The threads of a Controller, as its snapshots tell them.
ThreadsOf(w) ==
  [t \in {t \in DOMAIN threads : threads[t].home = w} |-> Entry(threads[t].parent, threads[t].status)]

\* An operation reaches the streams that are open.
Publish(w, op) ==
  streams' = [streams EXCEPT ![w] = IF @.up THEN [@ EXCEPT !.messages = Append(@, op)] ELSE @]

\* A thread, its parent and so on, as far as they are known.
Lineage(value, t) ==
  LET up[n \in 0..Cardinality(DOMAIN value)] ==
        IF n = 0 THEN {t} ELSE up[n - 1] \cup ({value[s].parent : s \in up[n - 1] \cap DOMAIN value} \ {0}) IN
  up[Cardinality(DOMAIN value)]
DescendantsOf(t) == {s \in DOMAIN threads : t \in Lineage(threads, s)}

CreateThread(w, parent) ==
  LET t == issued + 1 IN
  /\ issued' = t
  /\ threads' = threads @@ (t :> [home |-> w, parent |-> parent, status |-> "idle"])
  /\ Publish(w, [op |-> "created", threads |-> {t}, status |-> "idle", parent |-> parent])

DeleteThreads(t) ==
  /\ threads' = [s \in DOMAIN threads \ DescendantsOf(t) |-> threads[s]]
  /\ Publish(threads[t].home,
             [op |-> "deleted", threads |-> DescendantsOf(t), status |-> "none", parent |-> 0])
  /\ UNCHANGED issued

StatusAfter(s) ==
  CASE s = "idle" -> {"running"} [] s = "running" -> {"approval", "completed"}
    [] s = "approval" -> {"running"} [] OTHER -> {"running"}

\* A turn of a thread gets on; another client deletes a thread.
StatusChanges(t) ==
  \E s \in StatusAfter(threads[t].status) :
    /\ threads' = [threads EXCEPT ![t].status = s]
    /\ Publish(threads[t].home, [op |-> "status", threads |-> {t}, status |-> s, parent |-> 0])
    /\ UNCHANGED issued

WorkspaceStops(w) ==
  /\ running' = running \ {w} /\ UNCHANGED <<threads, issued>>
  /\ streams' = [streams EXCEPT ![w].up = FALSE]

ConnectionBreaks(w) == streams' = [streams EXCEPT ![w].up = FALSE] /\ UNCHANGED world
WorkspaceStarts(w) == running' = running \cup {w} /\ UNCHANGED <<threads, issued, streams>>

Change(kind) == kind \in scenario.events /\ changes < scenario.changes /\ changes' = changes + 1

Happens ==
  /\ \/ Change("status") /\ UNCHANGED running
        /\ \E t \in DOMAIN threads : threads[t].home \in running /\ StatusChanges(t)
     \/ Change("delete") /\ UNCHANGED running
        /\ \E t \in DOMAIN threads : threads[t].home \in running /\ DeleteThreads(t)
     \/ Change("stop") /\ \E w \in running : WorkspaceStops(w)
     \/ Change("cut") /\ \E w \in Workspaces : streams[w].up /\ ConnectionBreaks(w)
     \/ Change("start") /\ \E w \in Workspaces \ running : WorkspaceStarts(w)
  /\ UNCHANGED <<scenario, clicks, known, controllers, attention, resynced, pins, shell>>

-----------------------------------------------------------------------------
(* Routes, the session history and the drawers.                            *)

At(h) == h.entries[h.at]
HistoryEntry(r, p) == [route |-> r, panel |-> p]
Pushed(h, e) == [entries |-> Append(SubSeq(h.entries, 1, h.at), e), at |-> h.at + 1]
Replaced(h, e) == [h EXCEPT !.entries[h.at] = e]

\* mutant: the entry of the drawer is left as it was
NavigatedOver(h, next) == Pushed(h, HistoryEntry(next, At(h).panel))

\* navigate: under an open drawer the entry below it moves along
Navigated(h, next) ==
  IF At(h).panel = NoPanel THEN Pushed(h, HistoryEntry(next, NoPanel))
  ELSE Pushed(Replaced(h, HistoryEntry(next, NoPanel)), HistoryEntry(next, At(h).panel))

Loaded(cs, w) == w \in DOMAIN cs /\ cs[w].loaded

\* The page is that of one thread; the preview keeps the stream it was opened with.
PageAt(p, r, cs) ==
  IF r.thread = 0 \/ ~Loaded(cs, r.workspace) THEN NoPage
  ELSE IF p.thread # r.thread THEN [thread |-> r.thread, dialog |-> NoDialog, preview |-> r.detail]
  ELSE [p EXCEPT !.preview = IF r.detail = 0 THEN 0 ELSE IF @ = 0 THEN r.detail ELSE @]

\* A task ends with the component that spawned it; the command itself is sent.
Kept(c, p, ws) ==
  [c EXCEPT !.alive = @ /\ CASE c.kind = "create" -> c.workspace \in ws
                             [] c.kind = "send" -> p.thread = c.thread /\ p.preview = 0
                             [] OTHER -> p.thread = c.thread]

Show(h, r, p, c) ==
  /\ history' = h /\ route' = r
  /\ page' = PageAt(p, r, controllers)
  /\ command' = Kept(c, PageAt(p, r, controllers), known)

Navigate(next, p, c) == saved' = next /\ Show(Navigated(history, next), next, p, c)
GoTo(next) == Navigate(next, page, command)
ReplaceRoute(next) ==
  Show(Replaced(history, HistoryEntry(next, NoPanel)), next, page, command) /\ UNCHANGED saved

\* close_mobile_panel, over the history it finds
CloseOver(h) ==
  /\ panel' = NoPanel
  /\ backs' = IF panel # NoPanel /\ At(h).panel # NoPanel THEN backs + 1 ELSE backs

OpenPanel(p) ==
  /\ panel # p /\ panel' = p
  /\ history' = IF At(history).panel = NoPanel THEN Pushed(history, HistoryEntry(route, p))
                ELSE Replaced(history, HistoryEntry(route, p))
  /\ UNCHANGED <<saved, route, backs, page, command>>

ClosePanel == panel # NoPanel /\ CloseOver(history) /\ UNCHANGED <<saved, history, route, page, command>>

\* PopstateListener: a drawer closed here is not opened by the history.
Arrive(to) ==
  LET e == history.entries[to]
      back == [history EXCEPT !.at = to]
      reopened == panel = NoPanel /\ e.panel # NoPanel IN
  /\ Show(IF reopened THEN Replaced(back, HistoryEntry(e.route, NoPanel)) ELSE back, e.route, page, command)
  /\ panel' = IF reopened THEN panel ELSE e.panel
  /\ UNCHANGED saved

\* The traversal that close_mobile_panel asked for.
Popped ==
  /\ backs > 0 /\ backs' = backs - 1
  /\ IF history.at > 1 THEN Arrive(history.at - 1)
     ELSE UNCHANGED <<saved, history, route, panel, page, command>>
  /\ UNCHANGED <<bounds, world, remote, pins>>

Traverse(by) ==
  backs = 0 /\ history.at + by \in DOMAIN history.entries /\ Arrive(history.at + by) /\ UNCHANGED backs

-----------------------------------------------------------------------------
(* What reaches the browser.                                               *)

\* The list of Workspaces comes every two seconds; the monitor of one that left it goes.
ListArrives ==
  /\ known # running /\ known' = running
  /\ streams' = [w \in Workspaces |->
                   IF w \in running THEN streams[w] ELSE [up |-> FALSE, messages |-> <<>>]]
  /\ command' = Kept(command, page, running)
  /\ UNCHANGED <<bounds, world, controllers, attention, resynced, pins, saved, history, route, panel,
                 backs, page>>

Connect(w) ==
  /\ w \in known \cap running /\ ~streams[w].up /\ streams[w].messages = <<>>
  /\ streams' = [streams EXCEPT ![w] =
                   [up |-> TRUE, messages |-> <<[op |-> "snapshot", state |-> ThreadsOf(w)]>>]]
  /\ controllers' = IF w \in DOMAIN controllers
                    THEN [controllers EXCEPT ![w].connected = TRUE] ELSE controllers
  /\ UNCHANGED <<bounds, world, known, attention, resynced, pins, shell>>

\* The connection ends; what was under way is lost.
Disconnect(w) ==
  /\ w \in known /\ ~streams[w].up
  /\ streams[w].messages # <<>> \/ (w \in DOMAIN controllers /\ controllers[w].connected)
  /\ streams' = [streams EXCEPT ![w] = [up |-> FALSE, messages |-> <<>>]]
  /\ controllers' = IF w \in DOMAIN controllers
                    THEN [controllers EXCEPT ![w].connected = FALSE] ELSE controllers
  /\ UNCHANGED <<bounds, world, known, attention, resynced, pins, shell>>

\* RemoteState::apply
Applied(remoteState, m) ==
  CASE m.op = "snapshot" -> [remoteState EXCEPT !.loaded = TRUE, !.connected = TRUE, !.value = m.state]
    [] m.op = "created"  -> [remoteState EXCEPT !.value =
                               [t \in m.threads |-> Entry(m.parent, m.status)] @@ @]
    [] m.op = "deleted"  -> [remoteState EXCEPT !.value = [t \in DOMAIN @ \ m.threads |-> @[t]]]
    [] m.op = "status"   -> [remoteState EXCEPT !.value = [t \in DOMAIN @ |->
                               IF t \in m.threads THEN [@[t] EXCEPT !.status = m.status] ELSE @[t]]]

\* AwaitingApproval, AwaitingQuestion, Failed, Completed and Cancelled
WantsAttention(s) == s \in {"approval", "completed"}

MarkWith(marks, w, m) ==
  IF m.op = "status" /\ WantsAttention(m.status)
  THEN [t \in {t \in m.threads : route.workspace # w \/ route.thread # t} |-> m.status] @@ marks
  ELSE marks

\* ControllerMonitor
Receive(w) ==
  /\ w \in known /\ streams[w].messages # <<>>
  /\ LET m == Head(streams[w].messages)
         was == IF w \in DOMAIN controllers THEN controllers[w]
                ELSE [loaded |-> FALSE, connected |-> FALSE, value |-> <<>>]
         cs == (w :> Applied(was, m)) @@ controllers IN
     /\ streams' = [streams EXCEPT ![w].messages = Tail(@)]
     /\ controllers' = cs
     /\ attention' = MarkWith(attention, w, m)
     /\ resynced' = IF m.op = "snapshot" THEN resynced \cup DOMAIN m.state
                    ELSE IF m.op = "status" THEN resynced \ m.threads ELSE resynced
     /\ page' = PageAt(page, route, cs)
     /\ command' = Kept(command, PageAt(page, route, cs), known)
  /\ UNCHANGED <<bounds, world, known, pins, saved, history, route, panel, backs>>

-----------------------------------------------------------------------------
(* The effects of App.                                                     *)

Holds(w, t) == Loaded(controllers, w) /\ t \in DOMAIN controllers[w].value
Roots(w) == {t \in DOMAIN controllers[w].value : controllers[w].value[t].parent = 0}
\* root_threads: the newest first
FirstRoot(w) == IF Roots(w) = {} THEN 0 ELSE CHOOSE t \in Roots(w) : \A s \in Roots(w) : s <= t

\* Visiting a thread reads its mark.
Visit ==
  /\ route.thread \in DOMAIN attention
  /\ attention' = [t \in DOMAIN attention \ {route.thread} |-> attention[t]]
  /\ UNCHANGED <<bounds, world, streams, known, controllers, resynced, pins, shell>>

\* The first route: the last thread, the first pin, the first thread of the last Workspace.
Restored ==
  IF Holds(saved.workspace, saved.thread) THEN saved
  ELSE IF pins # <<>> /\ Holds(pins[1].workspace, pins[1].thread)
       THEN ThreadRoute(pins[1].workspace, pins[1].thread)
  ELSE IF Loaded(controllers, saved.workspace) /\ Roots(saved.workspace) # {}
       THEN ThreadRoute(saved.workspace, FirstRoot(saved.workspace))
  ELSE Home

Restore ==
  /\ route.workspace = NoWorkspace /\ Restored # Home
  /\ ReplaceRoute(Restored)
  /\ UNCHANGED <<bounds, world, remote, pins, panel, backs>>

\* mutant: only the Workspace is looked at
LeaveStopped ==
  /\ route.workspace # NoWorkspace /\ known # {} /\ route.workspace \notin known
  /\ ReplaceRoute(Home)
  /\ UNCHANGED <<bounds, world, remote, pins, panel, backs>>

\* A Workspace that left the list, a thread that its Controller does not hold.
LeaveUnavailable ==
  /\ route.workspace # NoWorkspace
  /\ IF known # {} /\ route.workspace \notin known THEN ReplaceRoute(Home)
     ELSE /\ Loaded(controllers, route.workspace) /\ route.thread # 0
          /\ ~Holds(route.workspace, route.thread)
          /\ ReplaceRoute(ThreadRoute(route.workspace, FirstRoot(route.workspace)))
  /\ UNCHANGED <<bounds, world, remote, pins, panel, backs>>

-----------------------------------------------------------------------------
(* Pins.                                                                   *)

Pin(w, t) == [workspace |-> w, thread |-> t]
RootIn(value, t) == CHOOSE s \in Lineage(value, t) : s \in DOMAIN value => value[s].parent = 0
RootOf(w, t) == IF w \in DOMAIN controllers THEN RootIn(controllers[w].value, t) ELSE t

Pinned(ps, w, t) == IF \E i \in DOMAIN ps : ps[i] = Pin(w, t) THEN ps ELSE <<Pin(w, t)>> \o ps
Unpinned(ps, w, t) == SelectSeq(ps, LAMBDA pin : pin # Pin(w, t))

\* set_pin and move_pin
TogglePin(w, t) ==
  /\ pins' = IF Pinned(pins, w, t) = pins THEN Unpinned(pins, w, t) ELSE Pinned(pins, w, t)
  /\ UNCHANGED shell

MovePin(from, to) ==
  /\ from # to /\ {from, to} \subseteq DOMAIN pins
  /\ pins' = InsertAt(RemoveAt(pins, from), to, pins[from])
  /\ UNCHANGED shell

-----------------------------------------------------------------------------
(* The user.                                                               *)

Connected(w) == w \in DOMAIN controllers /\ controllers[w].connected
OnPage == page.thread # 0

\* A row of the navigation, a pin, whose Workspace may be offline.
ClickRow(w, t) == GoTo(ThreadRoute(w, t)) /\ CloseOver(Navigated(history, ThreadRoute(w, t)))
                  /\ UNCHANGED pins
ClickThread == \E w \in known : Loaded(controllers, w) /\ \E t \in Roots(w) : ClickRow(w, t)
ClickPin == \E i \in DOMAIN pins : ClickRow(pins[i].workspace, pins[i].thread)

\* A child, a checkpoint, the way back to the live thread.
ClickChild ==
  OnPage /\ \E t \in DOMAIN controllers[route.workspace].value :
    RootOf(route.workspace, t) = RootOf(route.workspace, route.thread)
    /\ GoTo(ThreadRoute(route.workspace, t)) /\ UNCHANGED <<pins, panel, backs>>
ClickCheckpoint(c) ==
  OnPage /\ GoTo([route EXCEPT !.detail = c]) /\ UNCHANGED <<pins, panel, backs>>

\* The dialogs, which keep what they were opened for.
OpenDialog(kind) ==
  /\ OnPage /\ page.dialog = NoDialog /\ Connected(route.workspace)
  /\ kind = "restore" => page.preview # 0
  /\ page' = [page EXCEPT !.dialog =
                [kind |-> kind, checkpoint |-> route.detail, content |-> page.preview]]
  /\ UNCHANGED <<pins, saved, history, route, panel, backs, command>>
Busy == command.phase # "none"
CancelDialog ==
  /\ page.dialog # NoDialog /\ ~Busy
  /\ page' = [page EXCEPT !.dialog = NoDialog]
  /\ UNCHANGED <<pins, saved, history, route, panel, backs, command>>

Send(kind, w, t) ==
  /\ ~Busy /\ Connected(w)
  /\ command' = [kind |-> kind, workspace |-> w, thread |-> t, answer |-> 0,
                 phase |-> "sent", alive |-> TRUE]
  /\ UNCHANGED <<pins, saved, history, route, panel, backs, page>>

ConfirmDialog == page.dialog # NoDialog /\ Send(page.dialog.kind, route.workspace, route.thread)
NewThread == \E w \in known : issued < MaxThreads /\ Send("create", w, 0)
SendMessage == OnPage /\ page.preview = 0 /\ Send("send", route.workspace, route.thread)

Act(kind) == kind \in scenario.actions

\* Effects run with the next frame, before the user's next click.
User ==
  /\ clicks < scenario.clicks /\ clicks' = clicks + 1
  /\ route.thread \notin DOMAIN attention
  /\ \/ Act("thread") /\ ClickThread
     \/ Act("pin") /\ ClickPin
     \/ Act("child") /\ ClickChild
     \/ Act("checkpoint") /\ \E c \in 0..2 : ClickCheckpoint(c)
     \/ Act("panel") /\ UNCHANGED pins /\ \E p \in Panels : OpenPanel(p)
     \/ Act("panel") /\ UNCHANGED pins /\ ClosePanel
     \/ Act("traverse") /\ UNCHANGED pins /\ \E by \in {-1, 1} : Traverse(by)
     \/ Act("toggle") /\ \E w \in known : Loaded(controllers, w) /\ \E t \in Roots(w) : TogglePin(w, t)
     \/ Act("toggle") /\ \E i, j \in DOMAIN pins : MovePin(i, j)
     \/ \E kind \in scenario.actions \cap {"fork", "delete", "restore"} : OpenDialog(kind)
     \/ CancelDialog \/ ConfirmDialog
     \/ Act("create") /\ NewThread
     \/ Act("send") /\ SendMessage
  /\ UNCHANGED <<scenario, changes, world, remote>>

-----------------------------------------------------------------------------
(* Commands.                                                               *)

Reply(phase, id) == command' = [command EXCEPT !.phase = phase, !.answer = id]

\* The Controller executes the command; its events and its answer go their own ways.
Execute ==
  /\ command.phase = "sent"
  /\ LET w == command.workspace
         t == command.thread
         new == issued + 1 IN
     \/ w \in running /\ command.kind = "create" /\ CreateThread(w, 0) /\ Reply("done", new)
     \/ w \in running /\ command.kind = "fork" /\ t \in DOMAIN threads /\ new <= MaxThreads
        /\ CreateThread(w, t) /\ Reply("done", new)
     \/ w \in running /\ command.kind = "delete" /\ t \in DOMAIN threads
        /\ DeleteThreads(t) /\ Reply("done", 0)
     \/ w \in running /\ command.kind \in {"send", "restore"} /\ t \in DOMAIN threads
        /\ Reply("done", 0) /\ UNCHANGED <<threads, issued, streams>>
     \/ (w \notin running \/ t \notin DOMAIN threads \cup {0} \/ new > MaxThreads)
        /\ Reply("failed", 0) /\ UNCHANGED <<threads, issued, streams>>
  /\ UNCHANGED <<bounds, running, known, controllers, attention, resynced, pins, saved, history,
                 route, panel, backs, page>>

\* The rest of the task that sent it.
Done(kind) == command.phase = "done" /\ command.alive /\ command.kind = kind

Created ==
  /\ Done("create")
  /\ pins' = Pinned(pins, command.workspace, command.answer)
  /\ Navigate(ThreadRoute(command.workspace, command.answer), page, NoCommand)

Sent ==
  /\ Done("send")
  /\ pins' = Pinned(pins, command.workspace, RootOf(command.workspace, command.thread))
  /\ command' = NoCommand /\ UNCHANGED <<saved, history, route, page>>

\* The dialog closes and the answer's page is shown.
ShowAnswer(next) == Navigate(next, [page EXCEPT !.dialog = NoDialog], NoCommand)

Forked ==
  /\ Done("fork")
  /\ pins' = Pinned(pins, command.workspace, RootOf(command.workspace, command.thread))
  /\ ShowAnswer(ThreadRoute(command.workspace, command.answer))

Deleted ==
  /\ Done("delete")
  /\ pins' = IF RootOf(command.workspace, command.thread) = command.thread
             THEN Unpinned(pins, command.workspace, command.thread) ELSE pins
  /\ ShowAnswer(ThreadRoute(command.workspace, 0))

HistoryReplaced ==
  /\ Done("restore") /\ UNCHANGED pins
  /\ ShowAnswer(ThreadRoute(command.workspace, command.thread))

\* An error stays on show; the answer of a task that is gone is nobody's.
Dropped ==
  /\ command.phase \in {"done", "failed"} /\ (command.alive => command.phase = "failed")
  /\ command' = NoCommand /\ UNCHANGED <<pins, saved, history, route, page>>

Answer ==
  /\ \/ Created \/ Sent \/ Forked \/ Deleted \/ HistoryReplaced \/ Dropped
  /\ UNCHANGED <<bounds, world, remote, panel, backs>>

-----------------------------------------------------------------------------
Init ==
  /\ scenario \in Scenarios /\ clicks = 0 /\ changes = 0
  /\ running = Workspaces
  /\ threads = scenario.threads /\ issued = Cardinality(DOMAIN threads)
  /\ streams = [w \in Workspaces |-> [up |-> FALSE, messages |-> <<>>]]
  /\ known = {} /\ controllers = <<>> /\ attention = <<>> /\ resynced = {}
  /\ pins = <<>> /\ saved = scenario.saved
  /\ history = [entries |-> <<HistoryEntry(scenario.opened, NoPanel)>>, at |-> 1]
  /\ route = scenario.opened /\ panel = NoPanel /\ backs = 0
  /\ page = NoPage /\ command = NoCommand

Arrives == ListArrives \/ \E w \in Workspaces : Connect(w) \/ Disconnect(w) \/ Receive(w)
Effect == Visit \/ Restore \/ LeaveUnavailable
Next == Happens \/ User \/ Arrives \/ Effect \/ Popped \/ Execute \/ Answer

\* The browser runs what is due; the daemon and the Controllers answer.
Fairness ==
  /\ WF_vars(ListArrives) /\ WF_vars(Visit) /\ WF_vars(Restore) /\ WF_vars(LeaveUnavailable)
  /\ \A w \in Workspaces : WF_vars(Connect(w)) /\ WF_vars(Receive(w)) /\ WF_vars(Disconnect(w))
  /\ WF_vars(Popped) /\ WF_vars(Execute) /\ WF_vars(Answer)

Spec == Init /\ [][Next]_vars /\ Fairness
-----------------------------------------------------------------------------
(* Properties.                                                             *)

TypeOK ==
  /\ route \in Route /\ panel \in Panels \cup {NoPanel}
  /\ \A t \in DOMAIN threads : threads[t].status \in Statuses

\* The browser's session history and what the shell shows stay together
\* (navigate, replace_route, open_mobile_panel, close_mobile_panel and the
\* popstate listener each change both): the current entry is the route on
\* show, and the entry of a drawer lies right over the same route without it,
\* so that closing the drawer leaves the user where he is.
DrawerLiesOverItsRoute ==
  /\ At(history).route = route
  /\ At(history).panel # NoPanel =>
       history.at > 1 /\ history.entries[history.at - 1] = HistoryEntry(route, NoPanel)

\* The mark of a thread in the navigation (ControllerMonitor, main.rs) names
\* the state its Controller shows it in, when that state wants attention.  Not
\* so when a snapshot told the state: the monitor looks at operations only, so
\* that after a reconnection an old mark stands beside the new state.
MarksAreTrue ==
  \A w \in DOMAIN controllers : \A t \in DOMAIN controllers[w].value \cap DOMAIN attention :
    t # route.thread /\ WantsAttention(controllers[w].value[t].status) =>
      attention[t] = controllers[w].value[t].status \/ t \in resynced

\* The shell shows where the user is and what wants his attention.
ShellIsTrue == TypeOK /\ DrawerLiesOverItsRoute /\ MarksAreTrue

\* The effects of App that pick a route (main.rs) come to rest at a thread
\* that its Controller holds, or where no thread is on show.  Not so while
\* something is remembered of a Workspace that has left the list: one effect
\* restores its thread, the other leaves it, again and again.
RouteComesToRest ==
  \/ []<>(DOMAIN controllers \ known # {})
  \/ <>[](route.thread # 0 => Holds(route.workspace, route.thread)) /\ <>[][FALSE]_route
=============================================================================
