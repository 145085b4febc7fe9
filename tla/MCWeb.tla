-------------------------------- MODULE MCWeb --------------------------------
\* The browser's shell (WebShell), composer (WebComposer) and push setting
\* (WebPush), and the live transcripts of a page and of the terminal
\* (LiveTranscripts).  They share nothing; a behaviour is of one of them.
EXTENDS Integers, Sequences, Functions

CONSTANTS TranscriptScenarios, Workspaces, Watched, MaxThreads, ShellScenarios, Threads,
          HistoryLimit, ComposerScenarios,
          Browsers, MaxEndpoints, MaxTransitions, MaxFaults

VARIABLES
  part,
  transcript, log, server, projection, stage, turns, tui, web, selected, left,
  browsed, clicks, changes, running, threads, issues, streams, known, controllers, attention,
  resynced, pins, saved, history, route, panel, backs, page, command,
  composer, acts, turn, interaction, asked, accepted, shown, stored, sent, open, preview,
  draft, index, before, tasks, orphans, typed, repeatable,
  issued, rejected, endpoint, snapshot, busy, task, registered, file, up, watchers, sending,
  transitions, faults, acknowledged

transcriptVars == <<transcript, log, server, projection, stage, turns, tui, web, selected, left>>
shellVars == <<browsed, clicks, changes, running, threads, issues, streams, known, controllers,
               attention, resynced, pins, saved, history, route, panel, backs, page, command>>
composerVars == <<composer, acts, turn, interaction, asked, accepted, shown, stored, sent, open,
                  preview, draft, index, before, tasks, orphans, typed, repeatable>>
pushVars == <<issued, rejected, endpoint, snapshot, busy, task, registered, file, up, watchers,
              sending, transitions, faults, acknowledged>>

Transcripts == INSTANCE LiveTranscripts WITH Scenarios <- TranscriptScenarios, scenario <- transcript
Shell == INSTANCE WebShell WITH Scenarios <- ShellScenarios, scenario <- browsed, issued <- issues
Composer == INSTANCE WebComposer WITH Scenarios <- ComposerScenarios, scenario <- composer
Push == INSTANCE WebPush WITH Workspaces <- Watched

-----------------------------------------------------------------------------
Transcribed(mode, kinds, items, pieces, outcomes, nturns, cuts, rewinds) ==
  [mode |-> mode, kinds |-> kinds, items |-> items, pieces |-> pieces, outcomes |-> outcomes,
   turns |-> nturns, cuts |-> cuts, rewinds |-> rewinds]
Commands == {"command", "approval"}
MCTranscripts ==
  {Transcribed("pretty", {"reasoning", "commentary", "final", "search"}, 2, 1, {"completed"}, 1, 0, 0),
   Transcribed("pretty", Commands, 1, 0, {"completed", "failed", "cancelled"}, 1, 0, 0),
   Transcribed("pretty", Commands, 2, 0, {"completed"}, 1, 0, 0),
   Transcribed("pretty", {"command"}, 1, 0, {"cancelled"}, 2, 0, 1),
   Transcribed("pretty", {"command"}, 1, 0, {"failed"}, 2, 0, 0),
   Transcribed("pretty", {"question", "final"}, 1, 1, {"failed"}, 2, 0, 0),
   Transcribed("pretty", {"reasoning", "final"}, 2, 1, {"completed"}, 1, 1, 0),
   Transcribed("pretty", {"compaction", "final", "retry"}, 1, 1, {"completed"}, 1, 0, 1),
   Transcribed("pretty", {"final"}, 1, 1, {"completed"}, 2, 1, 1),
   Transcribed("raw", Commands \cup {"question"}, 1, 1, {"completed", "failed"}, 1, 0, 0),
   Transcribed("raw", {"final"}, 1, 1, {"completed"}, 2, 1, 1)}

Opened(w, t) == [workspace |-> w, thread |-> t, detail |-> 0]
Home == Opened("none", 0)
First == Opened("w1", 1)
Second == Opened("w2", 2)
Tree(w) == [home |-> w, parent |-> 0, status |-> "idle"]
Browsed(actions, events, nclicks, nchanges, opened, last) ==
  [actions |-> actions, events |-> events, clicks |-> nclicks, changes |-> nchanges,
   opened |-> opened, saved |-> last, threads |-> <<Tree("w1"), Tree("w2")>>]
MCShells ==
  {Browsed({"thread", "panel", "traverse"}, {}, 4, 0, First, First),
   Browsed({"thread", "toggle"}, {"status", "cut"}, 2, 4, First, First),
   Browsed({"pin", "toggle", "thread"}, {"stop", "start"}, 3, 2, Home, First),
   Browsed({"create", "thread", "panel"}, {"delete"}, 3, 1, Home, Home),
   Browsed({"fork", "child", "panel"}, {"delete"}, 4, 1, First, First),
   Browsed({"delete", "send"}, {"delete"}, 3, 1, First, Second),
   Browsed({"checkpoint", "restore", "send"}, {}, 4, 0, First, First)}

Composed(kinds, nacts, ntexts, ninteractions, lossy) ==
  [kinds |-> kinds, acts |-> nacts, texts |-> ntexts, interactions |-> ninteractions, lossy |-> lossy]
MCComposers ==
  {Composed({"history"}, 6, 2, 0, FALSE),
   Composed({"history"}, 5, 2, 0, TRUE),
   Composed({"thread", "preview"}, 6, 2, 0, FALSE),
   Composed({"stop", "answer"}, 6, 1, 1, TRUE),
   Composed({"rewind", "preview"}, 6, 2, 0, FALSE)}

-----------------------------------------------------------------------------
MCInit ==
  /\ part \in {"transcripts", "shell", "composer", "push"}
  /\ Transcripts!Init /\ (part = "transcripts" \/ transcript = CHOOSE s \in TranscriptScenarios : TRUE)
  /\ Shell!Init /\ (part = "shell" \/ browsed = CHOOSE s \in ShellScenarios : TRUE)
  /\ Composer!Init /\ (part = "composer" \/ composer = CHOOSE s \in ComposerScenarios : TRUE)
  /\ Push!Init

Transcribe(action) ==
  /\ part = "transcripts" /\ action
  /\ UNCHANGED <<part, shellVars, composerVars, pushVars>>
TranscriptsStep ==
  \/ Transcribe(Transcripts!StartTurn)
  \/ Transcribe(Transcripts!SaveInterrupted)
  \/ Transcribe(Transcripts!Ask)
  \/ \E kind \in transcript.kinds : Transcribe(Transcripts!BeginItem(kind))
  \/ \E item \in Range(Transcripts!Streaming) : Transcribe(Transcripts!MoreOfItem(item))
  \/ \E item \in Range(Transcripts!Streaming) : Transcribe(Transcripts!SaveItem(item))
  \/ Transcribe(Transcripts!SaveQuestion)
  \/ \E call \in Range(Transcripts!OpenCalls) : Transcribe(Transcripts!Interact(call))
  \/ \E call \in Range(Transcripts!OpenCalls) : Transcribe(Transcripts!Approve(call))
  \/ \E call \in Range(Transcripts!OpenCalls) : Transcribe(Transcripts!Work(call))
  \/ \E call \in Range(Transcripts!OpenCalls) : Transcribe(Transcripts!SaveResult(call))
  \/ Transcribe(Transcripts!Retry)
  \/ Transcribe(Transcripts!Compact)
  \/ \E outcome \in transcript.outcomes : Transcribe(Transcripts!Conclude(outcome))
  \/ Transcribe(Transcripts!FinishTurn)
  \/ Transcribe(Transcripts!Rewind)
  \/ Transcribe(Transcripts!DrawPage)
  \/ Transcribe(Transcripts!Select)
  \/ Transcribe(Transcripts!Disconnect)
  \/ Transcribe(Transcripts!Reconnect)

ShellStep ==
  /\ part = "shell" /\ Shell!Next
  /\ UNCHANGED <<part, transcriptVars, composerVars, pushVars>>
ComposerStep ==
  /\ part = "composer" /\ Composer!Next
  /\ UNCHANGED <<part, transcriptVars, shellVars, pushVars>>
PushStep ==
  /\ part = "push" /\ Push!Next
  /\ UNCHANGED <<part, transcriptVars, shellVars, composerVars>>
MCNext == TranscriptsStep \/ ShellStep \/ ComposerStep \/ PushStep

\* The fairness of WebShell, in its part.
Shells(action) == part = "shell" /\ action
Fairness ==
  /\ WF_shellVars(Shells(Shell!ListArrives)) /\ WF_shellVars(Shells(Shell!Visit))
  /\ WF_shellVars(Shells(Shell!Restore)) /\ WF_shellVars(Shells(Shell!LeaveUnavailable))
  /\ \A w \in Workspaces :
       /\ WF_shellVars(Shells(Shell!Connect(w))) /\ WF_shellVars(Shells(Shell!Receive(w)))
       /\ WF_shellVars(Shells(Shell!Disconnect(w)))
  /\ WF_shellVars(Shells(Shell!Popped)) /\ WF_shellVars(Shells(Shell!Execute))
  /\ WF_shellVars(Shells(Shell!Answer))

MCSpec ==
  /\ MCInit
  /\ [][MCNext]_<<part, transcriptVars, shellVars, composerVars, pushVars>>
  /\ Fairness

-----------------------------------------------------------------------------
\* The terminal's transcript, changed step by step, is what the thread's state
\* makes of it.  (transcript.rs, apply_change)
TranscriptFollows == part = "transcripts" => Transcripts!TranscriptFollows

\* The page shows what its replica of the thread says: drawing what is due makes
\* it what it is when it is drawn from nothing.  (invalidate, event_targets)
PageFollows == part = "transcripts" => Transcripts!PageFollows

\* The shell shows where the user is and what wants his attention.  (navigate,
\* open_mobile_panel, ControllerMonitor)
ShellIsTrue == part = "shell" => Shell!ShellIsTrue

\* The effects that pick a route come to rest.  (App)
RouteComesToRest == part = "shell" => Shell!RouteComesToRest

\* What the user typed once is accepted once.  (Composer)
SentOnce == part = "composer" => Composer!SentOnce

\* What was asked for stands, in the daemon and in the setting.  (PushManager,
\* PushSettings)
PushIsTrue == part = "push" => Push!PushIsTrue
==============================================================================
