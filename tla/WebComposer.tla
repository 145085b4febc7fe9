----------------------------- MODULE WebComposer -----------------------------
(***************************************************************************)
(* The composer of the web client (crates/atra-web-ui, main.rs): the draft *)
(* of each thread, kept in the browser's storage, the history of what was  *)
(* sent, the commands that a thread's page sends, the forms that answer an *)
(* interaction, and the Controller that they reach.                        *)
(*                                                                         *)
(* A text is a number, 0 the empty one; what the user types is always new. *)
(* The page knows of the turn what its stream has told it.  A command's    *)
(* answer goes to the component that sent it, if it is still on the page.  *)
(*                                                                         *)
(* Bounds, of a scenario: the user's actions and which they are, the       *)
(* interactions of a turn and how many turns end by themselves; HistoryLimit of the entries kept. *)
(***************************************************************************)
EXTENDS Integers, Sequences, FiniteSets, SequencesExt

CONSTANTS Threads, Scenarios, HistoryLimit

Empty == 0
NoIndex == 0
NoTask == [kind |-> "none", thread |-> 0, text |-> Empty, phase |-> "none"]
Senders == {"composer", "menu", "form", "dialog"}

VARIABLES scenario, acts,
          turn, interaction, asked, accepted,     \* the Controller, for each thread
          shown,                                  \* what the page's stream has told
          stored, sent,                           \* the browser's storage
          open, preview, draft, index, before,    \* the page, its composer
          tasks, orphans, typed, repeatable

server == <<turn, interaction, asked, accepted>>
storage == <<stored, sent>>
pageVars == <<open, preview, draft, index, before>>
vars == <<scenario, acts, server, shown, storage, pageVars, tasks, orphans, typed, repeatable>>

-----------------------------------------------------------------------------
(* The Controller.                                                         *)

Known(t) == [turn |-> turn[t], interaction |-> interaction[t]]

\* The turn asks the user, and ends.
TurnAsks(t) ==
  /\ turn[t] = "active" /\ interaction[t] = 0 /\ asked < scenario.interactions
  /\ asked' = asked + 1 /\ interaction' = [interaction EXCEPT ![t] = asked + 1]
  /\ UNCHANGED turn

TurnEnds(t) ==
  /\ turn[t] = "active" /\ interaction[t] = 0
  /\ turn' = [turn EXCEPT ![t] = "idle"]
  /\ UNCHANGED <<interaction, asked>>

TurnStep ==
  /\ \E t \in Threads : TurnAsks(t) \/ TurnEnds(t)
  /\ UNCHANGED <<scenario, acts, accepted, shown, storage, pageVars, tasks, orphans, typed, repeatable>>

\* The stream of the open thread catches up.
Hear ==
  /\ shown # Known(open) /\ shown' = Known(open)
  /\ tasks' = IF shown.interaction # interaction[open]   \* the forms are keyed by the interaction
              THEN [tasks EXCEPT !.form = NoTask] ELSE tasks
  /\ UNCHANGED <<scenario, acts, server, storage, pageVars, orphans, typed, repeatable>>

Refused(kind, task) ==
  CASE kind \in {"send", "continue"} -> turn[task.thread] # "idle"
    [] kind = "stop" -> turn[task.thread] = "idle"
    [] kind = "answer" -> interaction[task.thread] # task.text
    [] OTHER -> turn[task.thread] # "idle"

\* What a command does at the Controller.
Does(task) ==
  /\ ~Refused(task.kind, task)
  /\ turn' = CASE task.kind \in {"send", "continue"} -> [turn EXCEPT ![task.thread] = "active"]
               [] task.kind = "stop" -> [turn EXCEPT ![task.thread] = "idle"]
               [] OTHER -> turn
  /\ interaction' = IF task.kind \in {"stop", "answer"} THEN [interaction EXCEPT ![task.thread] = 0]
                    ELSE interaction
  /\ accepted' = IF task.kind = "send" THEN [accepted EXCEPT ![task.thread] = Append(@, task.text)]
                 ELSE accepted
Refuses(task) == Refused(task.kind, task) /\ UNCHANGED <<turn, interaction, accepted>>

\* A command reaches the Controller, whose answer may get lost on its way.
Execute(from) ==
  LET task == tasks[from]
      Reply(phase) == tasks' = [tasks EXCEPT ![from].phase = phase] IN
  /\ task.phase = "sent"
  /\ \/ Does(task) /\ Reply("accepted") /\ UNCHANGED repeatable
     \/ scenario.lossy /\ Does(task) /\ Reply("failed") /\ repeatable' = repeatable \cup {task.text}
     \/ Refuses(task) /\ Reply("failed") /\ UNCHANGED repeatable
  /\ UNCHANGED <<scenario, acts, asked, shown, storage, pageVars, orphans, typed>>

\* So does one whose component has left the page.
ExecuteOrphan ==
  /\ \E task \in orphans : (Does(task) \/ Refuses(task)) /\ orphans' = orphans \ {task}
  /\ UNCHANGED <<scenario, acts, asked, shown, storage, pageVars, tasks, typed, repeatable>>

-----------------------------------------------------------------------------
(* The composer.                                                           *)

Composing == ~preview
\* mutant: no control waits for the answer
NeverPending(from) == FALSE
Pending(from) == tasks[from].kind # "none"

SetDraft(text) == draft' = text /\ stored' = [stored EXCEPT ![open] = text]

\* push_history_entry
Remembered(text) ==
  IF sent # <<>> /\ Last(sent) = text THEN sent
  ELSE LET all == Append(sent, text) IN
       IF Len(all) > HistoryLimit THEN Tail(all) ELSE all

\* oninput
Type ==
  /\ typed < scenario.texts /\ typed' = typed + 1
  /\ SetDraft(typed + 1) /\ index' = NoIndex
  /\ UNCHANGED <<sent, open, preview, before, tasks, orphans, shown, repeatable>>

Stash ==
  /\ draft # Empty
  /\ SetDraft(Empty) /\ index' = NoIndex /\ sent' = Remembered(draft)
  /\ UNCHANGED <<open, preview, before, tasks, orphans, shown, typed, repeatable>>

\* previous_history and next_history
PreviousHistory ==
  LET to == IF index = NoIndex THEN Len(sent) ELSE IF index > 1 THEN index - 1 ELSE index IN
  /\ sent # <<>>
  /\ index' = to /\ SetDraft(sent[to])
  /\ before' = IF index = NoIndex THEN draft ELSE before
  /\ repeatable' = repeatable \cup {draft'}
  /\ UNCHANGED <<sent, open, preview, tasks, orphans, shown, typed>>

NextHistory ==
  /\ index # NoIndex
  /\ IF index < Len(sent) THEN index' = index + 1 /\ SetDraft(sent[index + 1])
     ELSE index' = NoIndex /\ SetDraft(before)
  /\ repeatable' = repeatable \cup {draft'}
  /\ UNCHANGED <<sent, open, preview, before, tasks, orphans, shown, typed>>

\* An entry of the history menu takes the draft's place.
PickHistory ==
  /\ \E i \in DOMAIN sent : SetDraft(sent[i])
  /\ index' = NoIndex
  /\ repeatable' = repeatable \cup {draft'}
  /\ UNCHANGED <<sent, open, preview, before, tasks, orphans, shown, typed>>

Send(from, kind, text) ==
  /\ tasks' = [tasks EXCEPT ![from] = [kind |-> kind, thread |-> open, text |-> text, phase |-> "sent"]]
  /\ UNCHANGED <<storage, pageVars, orphans, shown, typed, repeatable>>

Active == shown.turn = "active"
Awaiting == shown.interaction # 0

\* onsubmit, Stop, the menu's Continue and Compact, the forms of an interaction
Submit == draft # Empty /\ ~Active /\ ~Awaiting /\ ~Pending("composer") /\ Send("composer", "send", draft)
Stop == Active /\ ~Pending("composer") /\ Send("composer", "stop", Empty)
MenuContinue == ~Active /\ ~Pending("menu") /\ Send("menu", "continue", Empty)
AnswerForm == Awaiting /\ ~Pending("form") /\ Send("form", "answer", shown.interaction)

\* The dialog of a message sent before, which takes the draft's place when it was rewound to.
Rewind == ~Pending("dialog") /\ \E text \in Range(accepted[open]) : Send("dialog", "rewind", text)

-----------------------------------------------------------------------------
(* Answers.                                                                *)

Ended(from) == tasks' = [tasks EXCEPT ![from] = NoTask]

\* ThreadSend was accepted: what the composer holds now is cleared.
Sent ==
  /\ tasks.composer.phase = "accepted" /\ tasks.composer.kind = "send"
  /\ sent' = Remembered(tasks.composer.text) /\ UNCHANGED repeatable
  /\ SetDraft(Empty) /\ index' = NoIndex
  /\ Ended("composer") /\ UNCHANGED <<open, preview, before>>

Rewound ==
  /\ tasks.dialog.phase = "accepted"
  /\ SetDraft(tasks.dialog.text) /\ index' = NoIndex
  /\ repeatable' = repeatable \cup {tasks.dialog.text}
  /\ preview' = FALSE /\ before' = IF preview THEN Empty ELSE before
  /\ Ended("dialog") /\ UNCHANGED <<sent, open>>

\* Any other answer changes nothing, an error is shown and the draft is kept.
Told(from) ==
  /\ \/ tasks[from].phase = "failed"
     \/ tasks[from].phase = "accepted" /\ tasks[from].kind \in {"stop", "continue", "answer"}
  /\ Ended(from) /\ UNCHANGED <<storage, pageVars, repeatable>>

Answer ==
  /\ Sent \/ Rewound \/ \E from \in Senders : Told(from)
  /\ UNCHANGED <<scenario, acts, server, shown, orphans, typed>>

-----------------------------------------------------------------------------
(* The page.                                                               *)

\* Tasks end with the component that spawned them, before or after the
\* Controller took the command.
Abandoned(froms) ==
  /\ tasks' = [f \in Senders |-> IF f \in froms THEN NoTask ELSE tasks[f]]
  /\ orphans' = orphans \cup {tasks[f] : f \in {f \in froms : tasks[f].phase = "sent"}}
  /\ repeatable' = repeatable \cup {tasks[f].text : f \in {f \in froms : tasks[f].kind = "send"}}

\* Another thread's page: its draft comes from the storage.
OpenThread(t) ==
  /\ t # open /\ open' = t
  /\ draft' = stored[t] /\ index' = NoIndex /\ before' = Empty /\ preview' = FALSE
  /\ shown' = Known(t)
  /\ Abandoned(Senders)
  /\ UNCHANGED <<storage, typed>>

\* The preview of a checkpoint has no composer; the draft is the page's.
EnterPreview ==
  /\ ~preview /\ preview' = TRUE /\ before' = Empty
  /\ Abandoned({"composer", "menu", "form"})
  /\ UNCHANGED <<storage, open, draft, index, shown, typed>>
LeavePreview == preview /\ preview' = FALSE
                /\ UNCHANGED <<storage, open, draft, index, before, tasks, orphans, shown, typed, repeatable>>

User ==
  /\ acts < scenario.acts /\ acts' = acts + 1
  /\ LET may(kind) == kind \in scenario.kinds IN
     \/ Composing /\ (Type \/ Submit)
     \/ may("history") /\ Composing /\ (Stash \/ PreviousHistory \/ NextHistory \/ PickHistory)
     \/ may("stop") /\ Composing /\ (Stop \/ MenuContinue)
     \/ may("answer") /\ Composing /\ AnswerForm
     \/ may("rewind") /\ Rewind
     \/ may("thread") /\ \E t \in Threads : OpenThread(t)
     \/ may("preview") /\ (EnterPreview \/ LeavePreview)
  /\ UNCHANGED <<scenario, server>>

-----------------------------------------------------------------------------
Init ==
  /\ scenario \in Scenarios /\ acts = 0
  /\ turn = [t \in Threads |-> "idle"] /\ interaction = [t \in Threads |-> 0] /\ asked = 0
  /\ accepted = [t \in Threads |-> <<>>]
  /\ open = CHOOSE t \in Threads : \A s \in Threads : t <= s
  /\ shown = [turn |-> "idle", interaction |-> 0]
  /\ stored = [t \in Threads |-> Empty] /\ sent = <<>>
  /\ preview = FALSE /\ draft = Empty /\ index = NoIndex /\ before = Empty
  /\ tasks = [f \in Senders |-> NoTask] /\ orphans = {} /\ typed = 0 /\ repeatable = {}

Next == TurnStep \/ Hear \/ User \/ Answer \/ ExecuteOrphan \/ \E from \in Senders : Execute(from)

Spec == Init /\ [][Next]_vars
-----------------------------------------------------------------------------
(* Properties.                                                             *)

\* What the user typed once is accepted once (the composer's guard against a
\* second submission while a command is pending, and the draft that an answer
\* clears, main.rs).  A text may be accepted again when the user brought it back himself,
\* from the history or by a rewind, when the answer got lost, or when the
\* composer that would have heard it had left the page: the draft still stands
\* there when the user comes back.
SentOnce ==
  \A t \in Threads : \A i, j \in DOMAIN accepted[t] :
    i # j /\ accepted[t][i] = accepted[t][j] => accepted[t][i] \in repeatable

=============================================================================
