-------------------------- MODULE RunnerProcesses --------------------------
(***************************************************************************)
(* The processes a Runner manages (ProcessManager in atra-runner): their   *)
(* output reader, and the requests that wait for, stop, patch, subscribe   *)
(* to and spawn them.  Every request is a task of its own; it finds the    *)
(* process under its handle once and keeps it, while the handle may be     *)
(* given to a new process.                                                 *)
(*                                                                         *)
(* A process is named by the number of its start, a chunk of its output by *)
(* its position.  A spawn or patch a process asked for is news: the next   *)
(* wait of the process reports it.                                         *)
(***************************************************************************)
EXTENDS Naturals, FiniteSets

CONSTANTS
  Handles,     \* process handles
  Tasks,       \* requests, numbered in the order they are made
  Kinds,       \* the kinds of requests made
  MaxProcs,    \* bound: processes started
  MaxChunks    \* bound: chunks of output of a process

ASSUME ConstantsAssumption ==
  /\ Kinds \subseteq {"wait", "child", "stop", "spawn", "patch", "subscribe"}
  /\ MaxProcs \in Nat /\ MaxChunks \in Nat /\ Tasks \subseteq Nat

VARIABLES
  started,   \* processes started so far
  proc,      \* what the Runner and the operating system know of each process
  managed,   \* processes of ProcessManager, by handle; 0: none
  task

vars == <<started, proc, managed, task>>

Procs == 1..MaxProcs

\* open: the output stream has a writer.  read: chunks in the full output file.
\* tail: those also in output_tail.  patching: the holder of that lock.
NewProc == [running |-> TRUE, open |-> TRUE, written |-> 0, read |-> 0, tail |-> 0,
            buffer |-> {}, shutdown |-> FALSE, closed |-> FALSE, news |-> {}, patching |-> {}]

\* got: the chunks collected, told: the news reported, left: whether the reader
\* was given up on.
NewTask == [kind |-> "none", pc |-> "new", handle |-> "none", proc |-> 0, child |-> 0,
            got |-> {}, told |-> {}, left |-> FALSE, answer |-> "none"]

Active(t) == task[t].pc \notin {"new", "done"}
Of(t) == proc[task[t].proc]

TypeOK ==
  /\ started \in 0..MaxProcs
  /\ proc \in [Procs -> [running : BOOLEAN, open : BOOLEAN,
       written : 0..MaxChunks, read : 0..MaxChunks, tail : 0..MaxChunks,
       buffer : SUBSET (1..MaxChunks), shutdown : BOOLEAN, closed : BOOLEAN,
       news : SUBSET Tasks, patching : SUBSET Tasks]]
  /\ \A p \in Procs : proc[p].tail <= proc[p].read /\ proc[p].read <= proc[p].written
  /\ \A p \in Procs : Cardinality(proc[p].patching) <= 1
  /\ managed \in [Handles -> 0..started]
  /\ task \in [Tasks -> [kind : Kinds \cup {"none"}, handle : Handles \cup {"none"},
       proc : 0..started, child : 0..started,
       pc : {"new", "look", "collect", "await", "finish", "lock", "drain", "remove",
             "report", "start", "push", "apply", "last", "done"},
       got : SUBSET (1..MaxChunks), told : SUBSET Tasks, left : BOOLEAN,
       answer : {"none", "running", "finished", "stopped", "failed"}]]

Init ==
  /\ started = 0
  /\ proc = [p \in Procs |-> NewProc]
  /\ managed = [h \in Handles |-> 0]
  /\ task = [t \in Tasks |-> NewTask]

Goto(t, pc) == task' = [task EXCEPT ![t].pc = pc]

-----------------------------------------------------------------------------
(* The operating system's processes, and the reader of their output.       *)

\* start_with_context, for the Controller
Start(h) ==
  /\ managed[h] = 0 /\ started < MaxProcs
  /\ started' = started + 1
  /\ managed' = [managed EXCEPT ![h] = started + 1]
  /\ UNCHANGED <<proc, task>>

Write(p) ==
  /\ p <= started /\ proc[p].open /\ ~proc[p].closed /\ proc[p].written < MaxChunks
  /\ proc' = [proc EXCEPT ![p].written = @ + 1]
  /\ UNCHANGED <<started, managed, task>>

\* A descendant of the process may keep the stream open.
Exit(p) ==
  /\ p <= started /\ proc[p].running
  /\ \E held \in BOOLEAN : proc' = [proc EXCEPT ![p].running = FALSE, ![p].open = held]
  /\ UNCHANGED <<started, managed, task>>

Release(p) ==
  /\ ~proc[p].running /\ proc[p].open
  /\ proc' = [proc EXCEPT ![p].open = FALSE]
  /\ UNCHANGED <<started, managed, task>>

ReadChunk(p) ==
  /\ ~proc[p].closed /\ proc[p].read < proc[p].written /\ proc[p].tail = proc[p].read
  /\ proc' = [proc EXCEPT ![p].read = @ + 1, ![p].buffer = @ \cup {proc[p].read + 1}]
  /\ UNCHANGED <<started, managed, task>>

ReadTail(p) ==
  /\ proc[p].tail < proc[p].read
  /\ proc' = [proc EXCEPT ![p].tail = proc[p].read]
  /\ UNCHANGED <<started, managed, task>>

\* End of the stream, or the shutdown won the select.
ReaderEnds(p) ==
  /\ p <= started /\ ~proc[p].closed /\ proc[p].tail = proc[p].read
  /\ proc[p].shutdown \/ (~proc[p].open /\ proc[p].read = proc[p].written)
  /\ proc' = [proc EXCEPT ![p].closed = TRUE]
  /\ UNCHANGED <<started, managed, task>>

\* The stream or the full output file failed.
ReaderFails(p) ==
  /\ p <= started /\ ~proc[p].closed /\ proc[p].tail = proc[p].read
  /\ proc' = [proc EXCEPT ![p].closed = TRUE]
  /\ UNCHANGED <<started, managed, task>>

-----------------------------------------------------------------------------
(* Requests.                                                               *)

\* ProcessManager::process.  A stop signals the process, which may exit at any
\* time, and need not.
Begin(t, kind, h) ==
  /\ task[t].pc = "new" /\ managed[h] # 0
  /\ \A u \in Tasks : u < t => task[u].pc # "new"
  /\ LET first == [wait |-> "collect", child |-> "collect", stop |-> "await",
                   spawn |-> "start", patch |-> "lock", subscribe |-> "look"] IN
       task' = [task EXCEPT ![t] = [NewTask EXCEPT
         !.kind = kind, !.pc = first[kind], !.handle = h, !.proc = managed[h]]]
  /\ UNCHANGED <<started, proc, managed>>

\* take_output
Take(t, next) ==
  /\ task' = [task EXCEPT ![t].got = @ \cup Of(t).buffer, ![t].pc = next]
  /\ proc' = [proc EXCEPT ![task[t].proc].buffer = {}]
  /\ UNCHANGED <<started, managed>>

\* The first half of the loop of wait_inner
Collect(t) == task[t].pc = "collect" /\ Take(t, "look")

\* The second half: a wait of the Controller returns on progress, each on time.
LookAtWaited(t) ==
  /\ task[t].pc = "look" /\ task[t].kind \in {"wait", "child"} /\ Of(t).running
  /\ \/ /\ task[t].kind = "child" \/ task[t].got = {}
        /\ Goto(t, "collect")
     \/ task' = [task EXCEPT ![t].pc = "report", ![t].answer = "running"]
  /\ UNCHANGED <<started, proc, managed>>

\* One round of the loop of subscribe
LookAtSubscribed(t) ==
  /\ task[t].pc = "look" /\ task[t].kind = "subscribe" /\ Of(t).running
  /\ task' = [task EXCEPT ![t].got = 1..Of(t).tail]
  /\ UNCHANGED <<started, proc, managed>>

SeeExit(t) ==
  /\ task[t].pc \in {"look", "await"} /\ ~Of(t).running
  /\ Goto(t, "finish")
  /\ UNCHANGED <<started, proc, managed>>

\* stop gives up 1.2 seconds after the first signal.
GiveUp(t) ==
  /\ task[t].pc = "await" /\ Of(t).running
  /\ task' = [task EXCEPT ![t].pc = "done", ![t].answer = "failed"]
  /\ UNCHANGED <<started, proc, managed>>

\* finish_output: 50 ms for the reader to see the end, then it is told to stop.
ShutDown(t) ==
  /\ task[t].pc = "finish" /\ ~Of(t).closed /\ ~Of(t).shutdown
  /\ proc' = [proc EXCEPT ![task[t].proc].shutdown = TRUE]
  /\ UNCHANGED <<started, managed, task>>

AfterOutput(t) ==
  CASE task[t].kind = "stop" -> "lock" [] task[t].kind = "subscribe" -> "last" [] OTHER -> "drain"

Finish(t) ==
  /\ task[t].pc = "finish" /\ Of(t).closed
  /\ Goto(t, AfterOutput(t))
  /\ UNCHANGED <<started, proc, managed>>

WaitForReader(t) == Finish(t)   \* mutant: the reader that was told to stop has no time limit

\* A second later it is given up on, and may still be reading.
GiveUpReader(t) ==
  /\ task[t].pc = "finish" /\ ~Of(t).closed /\ Of(t).shutdown
  /\ task' = [task EXCEPT ![t].pc = AfterOutput(t), ![t].left = TRUE]
  /\ UNCHANGED <<started, proc, managed>>

\* The final state of a subscription
SendLast(t) ==
  /\ task[t].pc = "last"
  /\ task' = [task EXCEPT ![t].got = 1..Of(t).tail, ![t].pc = "done", ![t].answer = "finished"]
  /\ UNCHANGED <<started, proc, managed>>

\* A stop and a patch take the lock `patching`.
Lock(t) ==
  /\ task[t].pc = "lock" /\ Of(t).patching = {}
  /\ proc' = [proc EXCEPT ![task[t].proc].patching = {t}]
  /\ Goto(t, IF task[t].kind = "stop" THEN "drain" ELSE "apply")
  /\ UNCHANGED <<started, managed>>

DrainNothing(t) ==   \* mutant: what was read while the reader ended is left behind
  /\ task[t].pc = "drain"
  /\ Goto(t, "remove")
  /\ UNCHANGED <<started, proc, managed>>

Drain(t) == task[t].pc = "drain" /\ Take(t, "remove")

\* By handle, whatever process has it now
Remove(t) ==
  /\ task[t].pc = "remove"
  /\ managed' = [managed EXCEPT ![task[t].handle] = 0]
  /\ task' = [task EXCEPT ![t].pc = "report",
                ![t].answer = IF task[t].kind = "stop" THEN "stopped" ELSE "finished"]
  /\ UNCHANGED <<started, proc>>

Report(t) ==
  /\ task[t].pc = "report"
  /\ LET told == IF task[t].kind = "stop" THEN {} ELSE Of(t).news IN
       /\ task' = [task EXCEPT ![t].pc = "done", ![t].told = told]
       /\ proc' = [proc EXCEPT ![task[t].proc].news = @ \ told,
                               ![task[t].proc].patching = @ \ {t}]
  /\ UNCHANGED <<started, managed>>

\* The control client of a child wait went away.
Disconnect(t) ==
  /\ Active(t) /\ task[t].kind = "child"
  /\ task' = [task EXCEPT ![t].pc = "done", ![t].answer = "failed"]
  /\ UNCHANGED <<started, proc, managed>>

\* spawn: start_with_context
SpawnStart(t, h) ==
  /\ task[t].pc = "start" /\ managed[h] = 0 /\ started < MaxProcs
  /\ started' = started + 1
  /\ managed' = [managed EXCEPT ![h] = started + 1]
  /\ task' = [task EXCEPT ![t].child = started + 1, ![t].pc = "push"]
  /\ UNCHANGED proc

SpawnRefused(t, h) ==
  /\ task[t].pc = "start" /\ managed[h] # 0
  /\ task' = [task EXCEPT ![t].pc = "done", ![t].answer = "failed"]
  /\ UNCHANGED <<started, proc, managed>>

\* spawn, apply_patch, replace_text: what the next wait reports
AddNews(t) ==
  /\ task[t].pc \in {"push", "apply"}
  /\ proc' = [proc EXCEPT ![task[t].proc].news = @ \cup {t}, ![task[t].proc].patching = @ \ {t}]
  /\ task' = [task EXCEPT ![t].pc = "done", ![t].answer = "finished"]
  /\ UNCHANGED <<started, managed>>

Step(t) ==
  \/ Collect(t) \/ LookAtWaited(t) \/ LookAtSubscribed(t) \/ SeeExit(t) \/ GiveUp(t) \/ ShutDown(t)
  \/ Finish(t) \/ GiveUpReader(t) \/ SendLast(t) \/ Lock(t) \/ Drain(t) \/ Remove(t) \/ Report(t) \/ AddNews(t)

Next ==
  \/ \E h \in Handles : Start(h)
  \/ \E p \in Procs :
       Write(p) \/ Exit(p) \/ Release(p) \/ ReadChunk(p) \/ ReadTail(p)
         \/ ReaderEnds(p) \/ ReaderFails(p)
  \/ \E t \in Tasks :
       \/ Step(t) \/ Disconnect(t)
       \/ \E h \in Handles : SpawnStart(t, h) \/ SpawnRefused(t, h)
       \/ \E kind \in Kinds, h \in Handles : Begin(t, kind, h)

Spec == Init /\ [][Next]_vars

\* The Runner's tasks run, and their time limits pass.  A reader may hang on the
\* disk, a process may survive its signals.
Fairness == \A t \in Tasks : WF_vars(Step(t))

FairSpec == Spec /\ Fairness

-----------------------------------------------------------------------------
Waits == {t \in Tasks : task[t].kind \in {"wait", "child", "stop"}}

\* A chunk of output is in one answer only, whoever waits for the process and
\* stops it at the same time.  (take_output)
OutputAnsweredOnce ==
  \A t \in Waits :
    /\ task[t].got \cap Of(t).buffer = {}
    /\ \A other \in Waits \ {t} :
         task[other].proc = task[t].proc => task[other].got \cap task[t].got = {}

\* And none is dropped: what was read is kept for the next answer, or in one.
OutputKept ==
  \A p \in Procs : \A c \in 1..proc[p].read :
    c \in proc[p].buffer \/ \E t \in Waits : task[t].proc = p /\ c \in task[t].got

\* Nothing comes after the answer that says a process finished or was stopped:
\* no later wait would find it.  Excepted is an answer given while the reader
\* still ran: finish_output gives up on it after a second, and what it reads
\* later is in no answer.  (finish_output before the last take_output)
NothingAfterTheEnd ==
  \A t \in Waits : (task[t].pc = "done" /\ task[t].answer \in {"finished", "stopped"} /\ ~task[t].left)
    => Of(t).buffer = {} /\ Of(t).closed

\* A spawn or a patch is reported by one wait, and until then waits to be: a
\* process that can still be waited for has lost no news.
\* (take_patch_results, take_spawned_processes)
NewsToldOnce ==
  \A n \in Tasks : (task[n].kind \in {"spawn", "patch"} /\ task[n].answer = "finished") =>
    LET tellers == {t \in Waits : n \in task[t].told} IN
    /\ Cardinality(tellers) <= 1
    /\ tellers # {} => n \notin Of(n).news
    /\ managed[task[n].handle] = task[n].proc => (tellers # {} \/ n \in Of(n).news)

\* The last state a subscription sends shows all output there will ever be, but
\* for a reader that was given up on.
SubscriptionEndsComplete ==
  \A t \in Tasks : (task[t].kind = "subscribe" /\ task[t].pc = "done" /\ ~task[t].left)
    => task[t].got = 1..Of(t).read

\* What the answers of a process say is complete, and said once.
AnswersAreComplete ==
  /\ TypeOK /\ OutputAnsweredOnce /\ OutputKept /\ NothingAfterTheEnd
  /\ NewsToldOnce /\ SubscriptionEndsComplete

\* A stop is answered: again and again no stop waits, though the process may not
\* die, a descendant of it keep its output open for ever, and its reader hang.
\* (stop, finish_output)
StopEnds == []<>(\A t \in Tasks : task[t].kind = "stop" => task[t].pc = "done")
=============================================================================
