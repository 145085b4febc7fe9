------------------------------- MODULE WebPush -------------------------------
(***************************************************************************)
(* Notifications of the web client: the watchers of the web daemon         *)
(* (crates/atra-web, lib.rs), its subscriptions and their file (push.rs),  *)
(* and the setting in the browser (crates/atra-web-ui, web_push.rs).       *)
(*                                                                         *)
(* A subscription is the endpoint that the browser's push service issued,  *)
(* always a new one (external).  The service rejects one it has given up.  *)
(*                                                                         *)
(* Bounds: MaxEndpoints issued; MaxTransitions of the threads; MaxFaults   *)
(* of requests, files, services and daemons.                               *)
(***************************************************************************)
EXTENDS Integers, FiniteSets

CONSTANTS Browsers, Workspaces, MaxEndpoints, MaxTransitions, MaxFaults

None == 0
Endpoints == 1..MaxEndpoints

VARIABLES
  issued, rejected,        \* the push service
  endpoint,                \* what each browser is subscribed with
  snapshot, busy, task,    \* PushSettings: what it shows, and what it waits for
  registered, file, up,    \* PushManager: its state, the file, whether the daemon runs
  watchers, sending,       \* a watcher for each Workspace, and the message it sends
  transitions, faults, acknowledged

service == <<issued, rejected>>
browser == <<endpoint, snapshot, busy, task>>
daemon  == <<registered, file, up>>
vars == <<service, browser, daemon, watchers, sending, transitions, faults, acknowledged>>

NoSend == [left |-> {}, expired |-> {}, under |-> FALSE]
Fault == faults < MaxFaults /\ faults' = faults + 1
NoFault == UNCHANGED faults

-----------------------------------------------------------------------------
(* The daemon.                                                             *)

\* mutant: a failure to write is only logged
PersistUnchecked(state, Ok, Failed) ==
  \/ file' = state /\ Ok /\ NoFault
  \/ Fault /\ Ok /\ UNCHANGED file

\* persist: the file takes the place of the old one, or the write fails.
Persist(state, Ok, Failed) ==
  \/ file' = state /\ Ok /\ NoFault
  \/ Fault /\ Failed /\ UNCHANGED file

\* spawn_push_watchers: a watcher for each Workspace that has none.
Watch(w) ==
  /\ up /\ watchers[w] = "none" /\ watchers' = [watchers EXCEPT ![w] = "watching"]
  /\ UNCHANGED <<service, browser, daemon, sending, transitions, faults, acknowledged>>

\* The subscription of a watcher breaks; what happens until the next one is not told.
WatcherEnds(w) ==
  /\ watchers[w] = "watching" /\ ~sending[w].under /\ Fault
  /\ watchers' = [watchers EXCEPT ![w] = "none"]
  /\ UNCHANGED <<service, browser, daemon, sending, transitions, acknowledged>>

\* A status that notification_status names: the subscriptions are copied.
Transition(w) ==
  /\ up /\ watchers[w] = "watching" /\ ~sending[w].under /\ transitions < MaxTransitions
  /\ transitions' = transitions + 1
  /\ sending' = [sending EXCEPT ![w] = [left |-> registered, expired |-> {}, under |-> TRUE]]
  /\ UNCHANGED <<service, browser, daemon, watchers, faults, acknowledged>>

\* send_one
SendOne(w) ==
  /\ up /\ sending[w].left # {}
  /\ \E e \in sending[w].left :
       sending' = [sending EXCEPT ![w].left = @ \ {e},
                                  ![w].expired = IF e \in rejected THEN @ \cup {e} ELSE @]
  /\ UNCHANGED <<service, browser, daemon, watchers, transitions, faults, acknowledged>>

\* remove_expired, when all were tried; a failure to write is only logged
SendEnds(w) ==
  LET state == registered \ sending[w].expired IN
  /\ up /\ sending[w].under /\ sending[w].left = {}
  /\ registered' = state
  /\ IF sending[w].expired = {} THEN UNCHANGED <<file, faults>> ELSE Persist(state, TRUE, TRUE)
  /\ sending' = [sending EXCEPT ![w] = NoSend]
  /\ UNCHANGED <<service, browser, up, watchers, transitions, acknowledged>>

\* The daemon stops, and starts from its file.
DaemonStops ==
  /\ up /\ Fault /\ up' = FALSE
  /\ watchers' = [w \in Workspaces |-> "none"] /\ sending' = [w \in Workspaces |-> NoSend]
  /\ UNCHANGED <<service, browser, registered, file, transitions, acknowledged>>
DaemonStarts ==
  /\ ~up /\ up' = TRUE /\ registered' = file
  /\ UNCHANGED <<service, browser, file, watchers, sending, transitions, faults, acknowledged>>

-----------------------------------------------------------------------------
(* The browser.                                                            *)

Snapshot(state, subscribed) == [state |-> state, subscribed |-> subscribed]
Available(b) == Snapshot("available", endpoint'[b] # None)

\* current_push_state: what the browser is subscribed with, or that it could not be read
Check(b) ==
  /\ task[b] = "check"
  /\ endpoint' = endpoint
  /\ \/ NoFault /\ snapshot' = [snapshot EXCEPT ![b] = Available(b)]
     \/ Fault /\ snapshot' = [snapshot EXCEPT ![b] = Snapshot("unread", FALSE)]
  /\ task' = [task EXCEPT ![b] = "none"] /\ busy' = [busy EXCEPT ![b] = FALSE]
  /\ UNCHANGED <<service, daemon, watchers, sending, transitions, acknowledged>>

\* PushState::disabled: nothing is set before the first check has ended
Enabled(b) == ~busy[b] /\ snapshot[b].state # "checking"

Toggle(b) ==
  /\ Enabled(b)
  /\ busy' = [busy EXCEPT ![b] = TRUE]
  /\ task' = [task EXCEPT ![b] = IF snapshot[b].subscribed THEN "remove" ELSE "subscribe"]
  /\ UNCHANGED <<service, daemon, endpoint, snapshot, watchers, sending, transitions, faults, acknowledged>>

Step(b, next) == task' = [task EXCEPT ![b] = next]
Ends(b) ==
  /\ snapshot' = [snapshot EXCEPT ![b] = Available(b)]
  /\ busy' = [busy EXCEPT ![b] = FALSE] /\ Step(b, "none")
\* An error is shown over what the browser says then.
Fails(b) == Step(b, "check") /\ UNCHANGED <<snapshot, busy>>

\* subscribePush: the subscription the browser has, or a new one
Subscribe(b) ==
  /\ task[b] = "subscribe"
  /\ \/ endpoint[b] # None /\ Step(b, "put") /\ UNCHANGED <<issued, endpoint>> /\ NoFault
     \/ /\ endpoint[b] = None /\ issued < MaxEndpoints
        /\ issued' = issued + 1 /\ endpoint' = [endpoint EXCEPT ![b] = issued + 1]
        /\ Step(b, "put") /\ NoFault
     \/ Fault /\ Step(b, "check") /\ UNCHANGED <<issued, endpoint>>
  /\ UNCHANGED <<rejected, daemon, snapshot, busy, watchers, sending, transitions, acknowledged>>

\* PUT: subscribe replaces the endpoint or adds it
Put(b) ==
  /\ task[b] = "put" /\ endpoint' = endpoint
  /\ IF up THEN
       /\ registered' = registered \cup {endpoint[b]}
       /\ Persist(registered', Ends(b) /\ acknowledged' = acknowledged \cup {endpoint[b]},
                  Fails(b) /\ UNCHANGED acknowledged)
     ELSE Fails(b) /\ NoFault /\ UNCHANGED <<registered, file, acknowledged>>
  /\ UNCHANGED <<service, up, watchers, sending, transitions>>

\* DELETE
Delete(b) ==
  /\ task[b] = "remove" /\ endpoint' = endpoint
  /\ IF endpoint[b] = None THEN Ends(b) /\ NoFault /\ UNCHANGED <<registered, file, acknowledged>>
     ELSE IF up THEN
       /\ registered' = registered \ {endpoint[b]} /\ acknowledged' = acknowledged \ {endpoint[b]}
       /\ Persist(registered', Step(b, "unsubscribe") /\ UNCHANGED <<snapshot, busy>>, Fails(b))
     ELSE Fails(b) /\ NoFault /\ UNCHANGED <<registered, file, acknowledged>>
  /\ UNCHANGED <<service, up, watchers, sending, transitions>>

Unsubscribe(b) ==
  /\ task[b] = "unsubscribe"
  /\ \/ /\ endpoint' = [endpoint EXCEPT ![b] = None] /\ rejected' = rejected \cup {endpoint[b]}
        /\ Ends(b) /\ NoFault
     \/ Fault /\ Fails(b) /\ UNCHANGED <<endpoint, rejected>>
  /\ UNCHANGED <<issued, daemon, watchers, sending, transitions, acknowledged>>

\* send_test of the browser's own endpoint, which may turn out to be rejected
SendTest(b) ==
  /\ Enabled(b) /\ snapshot[b].subscribed /\ up
  /\ endpoint[b] \in registered \cap rejected
  /\ registered' = registered \ {endpoint[b]}
  /\ Persist(registered', TRUE, TRUE)
  /\ UNCHANGED <<service, browser, up, watchers, sending, transitions, acknowledged>>

\* The push service gives an endpoint up.
ServiceRejects(e) ==
  /\ e \in 1..issued \ rejected /\ Fault /\ rejected' = rejected \cup {e}
  /\ UNCHANGED <<issued, browser, daemon, watchers, sending, transitions, acknowledged>>

-----------------------------------------------------------------------------
Init ==
  /\ issued = 0 /\ rejected = {}
  /\ endpoint = [b \in Browsers |-> None]
  /\ snapshot = [b \in Browsers |-> Snapshot("checking", FALSE)]
  /\ busy = [b \in Browsers |-> FALSE] /\ task = [b \in Browsers |-> "check"]
  /\ registered = {} /\ file = {} /\ up = TRUE
  /\ watchers = [w \in Workspaces |-> "none"] /\ sending = [w \in Workspaces |-> NoSend]
  /\ transitions = 0 /\ faults = 0 /\ acknowledged = {}

Next ==
  \/ \E w \in Workspaces : Watch(w) \/ WatcherEnds(w) \/ Transition(w) \/ SendOne(w) \/ SendEnds(w)
  \/ DaemonStops \/ DaemonStarts
  \/ \E b \in Browsers : Check(b) \/ Toggle(b) \/ Subscribe(b) \/ Put(b) \/ Delete(b)
                         \/ Unsubscribe(b) \/ SendTest(b)
  \/ \E e \in Endpoints : ServiceRejects(e)

Spec == Init /\ [][Next]_vars

-----------------------------------------------------------------------------
(* Properties.                                                             *)

\* A browser whose subscription the daemon acknowledged, and that has not asked
\* for its removal since, stays registered, in memory and in the file, for as
\* long as its push service takes messages for it: neither the removal of
\* expired subscriptions, which works on a copy taken before the messages were
\* sent (PushManager::send_all), nor another browser's change, nor a restart
\* takes it away.
RegisteredAreKept ==
  LET live == acknowledged \ rejected IN
  live \subseteq file /\ (up => live \subseteq registered)

\* What the setting shows when it may be changed is what the browser is
\* subscribed with (PushSettings, web_push.rs), whichever step of a change failed.
\* Not so when the browser could not be asked: the error stands beside an empty box.
SettingIsTrue ==
  \A b \in Browsers : Enabled(b) /\ snapshot[b].state = "available" =>
    snapshot[b].subscribed = (endpoint[b] # None)

\* What was asked for stands, in the daemon and in the setting.
PushIsTrue == RegisteredAreKept /\ SettingIsTrue
=============================================================================
