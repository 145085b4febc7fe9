-------------------------- MODULE ManagedProcesses --------------------------
(***************************************************************************)
(* The processes of one thread that the Controller keeps apart from its    *)
(* turns: how a command of a turn or of a client becomes a managed         *)
(* process, and how its end is shown.  Five parts meet here: the turn and  *)
(* its slot for the process it waits for, the commands of the clients, the *)
(* records of RunnerPool, the thread's view with a watcher per             *)
(* registration, and the Runner, where a running command may spawn and     *)
(* stop processes under names it chooses.                                  *)
(*                                                                         *)
(* A process is the number of its start.  An id generated by the           *)
(* Controller is the number of the one process it is given to; the id of   *)
(* a spawned process is chosen and may be chosen again.                    *)
(* RunnerProcesses has the Runner's requests in detail; here each is a     *)
(* step.  Clients name only processes they are shown.                      *)
(***************************************************************************)
EXTENDS Naturals, FiniteSets

CONSTANTS
  Chosen,     \* ids a spawn chooses
  Users,      \* command handlers of clients
  Talkative,  \* bound: ids whose processes may write more than is kept
  MaxProcs,   \* bound: processes started
  MaxExecs    \* bound: those the Controller starts

Procs == 1..MaxProcs
Ids == Chosen \cup Procs

Turn == "turn"
Handlers == Users \cup {Turn}

ASSUME ConstantsAssumption ==
  /\ MaxProcs \in Nat /\ MaxExecs \in Nat /\ Chosen \cap Nat = {}
  /\ IsFiniteSet(Users) /\ Turn \notin Users

VARIABLES
  alive,     \* the thread exists, in the store and in the views
  up,        \* the Runner's streams are open
  proc,      \* the processes started, in order
  managed,   \* the Runner's map, by handle; 0: none
  record,    \* RunnerPool.processes; 0: none
  shown,     \* the status in the views; overflowed: running, and output was omitted
  watch,     \* the subscription made for a process, and its watcher
  lock,      \* holder of State.mutation
  handler,   \* the execution of the turn, and the commands of the clients
  slot,      \* ActiveTurn.process; 0: none
  orphans,   \* StartCommand requests nobody waits for any more
  doomed,    \* ids of StopProcess requests that nobody waits for
  unread     \* processes whose ProcessStarted was dropped unread

runner == <<up, proc, managed>>
controller == <<alive, record, shown, lock>>
vars == <<runner, controller, watch, handler, slot, orphans, doomed, unread>>

Started == DOMAIN proc
Running(p) == p \in Started /\ proc[p].running
Latest == Cardinality(Started)

NoWatch == [pc |-> "none", of |-> 0, mail |-> "none", live |-> FALSE]
\* todo: spawned processes to register.  reg: the one being registered.
\* then: what comes after them.
Idle == [pc |-> "idle", proc |-> 0, todo |-> {}, reg |-> 0, then |-> "none", id |-> 0]

Process == [id : Ids, parent : Started \cup {0}, running : BOOLEAN, news : SUBSET Started]
Watcher == [pc : {"none", "asked", "on", "end"}, of : Started \cup {0},
            mail : {"none", "running", "exited"}, live : BOOLEAN]
Handling == [pc : {"idle", "asked", "answered", "waiting", "registering", "locking", "recorded",
                   "cancelling", "unwinding", "stop", "remove"},
             proc : Started \cup {0}, todo : SUBSET Started, reg : Started \cup {0},
             then : {"none", "wait", "detach", "end"}, id : Ids \cup {0}]

TypeOK ==
  /\ alive \in BOOLEAN /\ up \in BOOLEAN
  /\ Started = 1..Latest /\ Latest <= MaxProcs
  /\ \A p \in Started : proc[p] \in Process
  /\ managed \in [Ids -> Started \cup {0}] /\ record \in [Ids -> Started \cup {0}]
  /\ \A i \in Ids, p \in Started : p \in {managed[i], record[i]} => proc[p].id = i
  /\ shown \in [Ids -> {"none", "running", "overflowed", "exited", "unavailable"}]
  /\ watch \in [Procs -> Watcher]
  /\ lock \in SUBSET Handlers /\ Cardinality(lock) <= 1
  /\ \A h \in Handlers : handler[h] \in Handling
  /\ slot \in Started \cup {0} /\ orphans \in 0..MaxProcs
  /\ doomed \in SUBSET Ids /\ unread \in SUBSET Started

Init ==
  /\ alive = TRUE /\ up = TRUE
  /\ proc = [p \in {} |-> 0]
  /\ managed = [i \in Ids |-> 0] /\ record = [i \in Ids |-> 0]
  /\ shown = [i \in Ids |-> "none"]
  /\ watch = [p \in Procs |-> NoWatch]
  /\ lock = {}
  /\ handler = [h \in Handlers |-> Idle]
  /\ slot = 0 /\ orphans = 0 /\ doomed = {} /\ unread = {}

At(h, pc) == handler[h].pc = pc
Set(h, new) == handler' = [handler EXCEPT ![h] = new]
Goto(h, pc) == handler' = [handler EXCEPT ![h].pc = pc]

-----------------------------------------------------------------------------
(* The Runner.                                                             *)

\* start_with_context: refused while the handle is managed
StartAs(id, parent) ==
  LET p == Latest + 1 IN
  /\ up /\ p <= MaxProcs /\ managed[id] = 0
  /\ proc' = [q \in 1..p |->
       IF q = p THEN [id |-> id, parent |-> parent, running |-> TRUE, news |-> {}]
       ELSE IF q = parent THEN [proc[q] EXCEPT !.news = @ \cup {p}] ELSE proc[q]]
  /\ managed' = [managed EXCEPT ![id] = p]
  /\ UNCHANGED up

\* `atri proc spawn` in a command
Spawn(p, id) ==
  /\ Running(p) /\ managed[proc[p].id] = p
  /\ StartAs(id, p)
  /\ UNCHANGED <<controller, watch, handler, slot, orphans, doomed, unread>>

\* Stop under a handle, whatever process has it; an error if none has
StopAs(id) ==
  /\ proc' = [p \in Started |-> IF p = managed[id] THEN [proc[p] EXCEPT !.running = FALSE]
                                                  ELSE proc[p]]
  /\ managed' = [managed EXCEPT ![id] = 0]
  /\ UNCHANGED up

\* `atri proc stop` in a command
StopInside(id) ==
  /\ up /\ managed[id] # 0
  /\ StopAs(id)
  /\ UNCHANGED <<controller, watch, handler, slot, orphans, doomed, unread>>

Exit(p) ==
  /\ Running(p)
  /\ proc' = [proc EXCEPT ![p].running = FALSE]
  /\ UNCHANGED <<up, managed, controller, watch, handler, slot, orphans, doomed, unread>>

\* The subscription finds its process, or is answered by an error.
Resolve(p) ==
  /\ up /\ watch[p].pc = "asked"
  /\ LET of == managed[proc[p].id] IN
       watch' = [watch EXCEPT ![p] =
         IF of = 0 THEN [@ EXCEPT !.pc = "end"]
         ELSE [@ EXCEPT !.of = of,
                        !.pc = IF proc[of].running THEN "on" ELSE "end",
                        !.mail = IF proc[of].running THEN "running" ELSE "exited"]]
  /\ UNCHANGED <<runner, controller, handler, slot, orphans, doomed, unread>>

\* The channel keeps the latest state only.
SendExit(p) ==
  /\ up /\ watch[p].pc = "on" /\ ~Running(watch[p].of)
  /\ watch' = [watch EXCEPT ![p].pc = "end", ![p].mail = "exited"]
  /\ UNCHANGED <<runner, controller, handler, slot, orphans, doomed, unread>>

\* The reader of the Runner's output ends: requests fail, subscriptions end.
Disconnect ==
  /\ up /\ up' = FALSE
  /\ managed' = [i \in Ids |-> 0]
  /\ watch' = [p \in Procs |->
       IF watch[p].pc \in {"asked", "on"} THEN [watch[p] EXCEPT !.pc = "end"] ELSE watch[p]]
  /\ handler' = [h \in Handlers |->
       IF handler[h].pc \in {"asked", "waiting", "unwinding", "stop"} THEN Idle ELSE handler[h]]
  /\ orphans' = 0 /\ doomed' = {}
  /\ UNCHANGED <<proc, controller, slot, unread>>

-----------------------------------------------------------------------------
(* Starting a command, in the turn and for a client.                       *)

Exec(h) ==
  /\ At(h, "idle") /\ alive /\ up
  /\ LET open == orphans + Cardinality({g \in Handlers : At(g, "asked")}) IN
       /\ open + Latest < MaxProcs
       /\ open + Cardinality({p \in Started : proc[p].parent = 0}) < MaxExecs
  /\ Goto(h, "asked")
  /\ UNCHANGED <<runner, controller, watch, slot, orphans, doomed, unread>>

\* StartCommand, and its answer with the reader
AnswerStart(h) ==
  /\ At(h, "asked")
  /\ StartAs(Latest + 1, 0)
  /\ Set(h, [Idle EXCEPT !.pc = "answered", !.proc = Latest + 1])
  /\ UNCHANGED <<controller, watch, slot, orphans, doomed, unread>>

\* Nobody waits for the answer: the reader asks for a stop.
AnswerAbandonedStart ==
  /\ orphans > 0 /\ StartAs(Latest + 1, 0)
  /\ orphans' = orphans - 1
  /\ doomed' = doomed \cup {Latest + 1}
  /\ UNCHANGED <<controller, watch, handler, slot, unread>>

StopDoomed(id) ==
  /\ id \in doomed /\ up
  /\ StopAs(id)
  /\ doomed' = doomed \ {id}
  /\ UNCHANGED <<controller, watch, handler, slot, orphans, unread>>

\* set_process, and the first WaitProcess
Hold ==
  /\ At(Turn, "answered")
  /\ slot' = handler[Turn].proc
  /\ Goto(Turn, "waiting")
  /\ UNCHANGED <<runner, controller, watch, orphans, doomed, unread>>

\* The answer to WaitProcess takes the news.  A process that ended, or was
\* stopped under the wait, is finished.
AnswerWait ==
  LET p == handler[Turn].proc IN
  /\ At(Turn, "waiting") /\ up
  /\ \E then \in IF Running(p) THEN {"wait", "detach"} ELSE {"end"} :
       /\ Set(Turn, [handler[Turn] EXCEPT !.pc = "registering", !.then = then, !.todo = proc[p].news])
       /\ managed' = IF then = "end" THEN [managed EXCEPT ![proc[p].id] = 0] ELSE managed
  /\ proc' = [proc EXCEPT ![p].news = {}]
  /\ UNCHANGED <<up, controller, watch, slot, orphans, doomed, unread>>

\* An error of a request to a process that is not there, or of a closed pipe,
\* ends the execution; the slot keeps the process.
ExecFails ==
  /\ \/ At(Turn, "waiting") /\ managed[proc[handler[Turn].proc].id] = 0
     \/ handler[Turn].pc \in {"waiting", "registering"} /\ ~up
  /\ Set(Turn, Idle)
  /\ UNCHANGED <<runner, controller, watch, slot, orphans, doomed, unread>>

\* All spawned processes are registered: the next round, or the end.
RoundEnds ==
  /\ At(Turn, "registering") /\ handler[Turn].todo = {}
  /\ \/ handler[Turn].then = "wait" /\ Goto(Turn, "waiting") /\ UNCHANGED slot
     \/ handler[Turn].then = "end" /\ Set(Turn, Idle) /\ slot' = 0
  /\ UNCHANGED <<runner, controller, watch, orphans, doomed, unread>>

-----------------------------------------------------------------------------
(* Registration.                                                           *)

Subscribe(h, p) ==
  /\ watch' = [watch EXCEPT ![p] = [NoWatch EXCEPT !.pc = "asked"]]
  /\ Set(h, [handler[h] EXCEPT !.pc = "locking", !.reg = p, !.todo = @ \ {p}])
  /\ UNCHANGED <<runner, controller, slot, orphans, doomed, unread>>

\* register_spawned_processes; a command that still runs after its time
SubscribeTurn(p) ==
  /\ At(Turn, "registering") /\ up
  /\ \/ p \in handler[Turn].todo
     \/ handler[Turn].todo = {} /\ handler[Turn].then = "detach" /\ p = handler[Turn].proc
  /\ Subscribe(Turn, p)

\* start_managed_process
SubscribeUser(h) ==
  /\ h \in Users /\ At(h, "answered") /\ up
  /\ Subscribe(h, handler[h].proc)

DropWatch(p) == watch' = [watch EXCEPT ![p] = NoWatch]

\* register_managed_process, as far as insert_process
Register(h) ==
  LET p == handler[h].reg IN
  /\ At(h, "locking") /\ lock = {} /\ alive /\ record[proc[p].id] = 0
  /\ record' = [record EXCEPT ![proc[p].id] = p]
  /\ lock' = {h} /\ Goto(h, "recorded")
  /\ UNCHANGED <<runner, alive, shown, watch, slot, orphans, doomed, unread>>

\* The id has a record: the subscription is dropped.
RegisterOccupied(h) ==
  LET p == handler[h].reg IN
  /\ At(h, "locking") /\ lock = {} /\ alive /\ record[proc[p].id] # 0
  /\ DropWatch(p)
  /\ IF h = Turn THEN Goto(h, "registering") ELSE Set(h, Idle)
  /\ UNCHANGED <<runner, controller, slot, orphans, doomed, unread>>

ForgetUnregistered(h) ==   \* mutant: a process that cannot be registered is left alone
  /\ h \in Users
  /\ \/ At(h, "locking") /\ lock = {} /\ ~alive /\ DropWatch(handler[h].reg)
     \/ At(h, "answered") /\ ~up /\ UNCHANGED watch
  /\ Set(h, Idle)
  /\ UNCHANGED <<runner, controller, slot, orphans, doomed, unread>>

\* The thread is gone, or the subscription failed: the process is stopped.
RegisterFails(h) ==
  /\ h \in Users
  /\ \/ At(h, "locking") /\ lock = {} /\ ~alive /\ DropWatch(handler[h].reg)
     \/ At(h, "answered") /\ ~up /\ UNCHANGED watch
  /\ Goto(h, "unwinding")
  /\ UNCHANGED <<runner, controller, slot, orphans, doomed, unread>>

StopUnregistered(h) ==
  /\ At(h, "unwinding")
  /\ IF up THEN StopAs(proc[handler[h].proc].id) ELSE UNCHANGED runner
  /\ Set(h, Idle)
  /\ UNCHANGED <<controller, watch, slot, orphans, doomed, unread>>

\* views.insert_process, the watcher, and clear_process after a detachment
View(h) ==
  LET p == handler[h].reg IN
  /\ At(h, "recorded")
  /\ shown' = [shown EXCEPT ![proc[p].id] = "running"]
  /\ watch' = [watch EXCEPT ![p].live = TRUE]
  /\ lock' = {}
  /\ IF h = Turn /\ p # handler[h].proc
     THEN Goto(h, "registering") /\ UNCHANGED slot
     ELSE Set(h, Idle) /\ slot' = IF h = Turn THEN 0 ELSE slot
  /\ UNCHANGED <<runner, alive, record, orphans, doomed, unread>>

ShownRunning(id) == shown[id] \in {"running", "overflowed"}

\* ProcessOperation::apply refuses a status after the last one, and less omitted
\* output than before: the loss of the Runner is reported with none.
Refused(id, status) ==
  \/ shown[id] = "none"
  \/ status = "running" /\ ~ShownRunning(id)
  \/ status = "unavailable" /\ shown[id] = "overflowed"

\* A running process may by then have written more than is kept.
Shown(id, status) ==
  IF status # "running" THEN {status}
  ELSE IF shown[id] = "overflowed" THEN {"overflowed"} ELSE {"running"} \cup (IF id \in Talkative THEN {"overflowed"} ELSE {})

HearOnce(p) ==   \* mutant: the watcher ends with the first state it gets
  /\ watch[p].live /\ (watch[p].mail # "none" \/ watch[p].pc = "end")
  /\ LET id == proc[p].id
         status == IF watch[p].mail = "none" THEN "unavailable" ELSE watch[p].mail
         refused == Refused(id, status) IN
       /\ shown' \in IF refused THEN {shown} ELSE {[shown EXCEPT ![id] = s] : s \in Shown(id, status)}
       /\ watch' = [watch EXCEPT ![p].mail = "none", ![p].live = FALSE]
  /\ UNCHANGED <<runner, alive, record, lock, handler, slot, orphans, doomed, unread>>

\* watch_process and synchronize_process: a view that is not there, or that
\* ended, refuses a state, and the watcher ends as it does with the process.
HearState(p) ==
  /\ watch[p].live /\ (watch[p].mail # "none" \/ watch[p].pc = "end")
  /\ LET id == proc[p].id
         status == IF watch[p].mail = "none" THEN "unavailable" ELSE watch[p].mail
         refused == Refused(id, status) IN
       /\ shown' \in IF refused THEN {shown} ELSE {[shown EXCEPT ![id] = s] : s \in Shown(id, status)}
       /\ watch' = [watch EXCEPT ![p].mail = "none",
                                 ![p].live = ~refused /\ status = "running"]
  /\ UNCHANGED <<runner, alive, record, lock, handler, slot, orphans, doomed, unread>>

-----------------------------------------------------------------------------
(* Stopping.                                                               *)

\* The turn is cancelled: its future is dropped wherever it awaits.
Cancel ==
  LET h == handler[Turn] IN
  /\ h.pc \notin {"idle", "cancelling"}
  /\ orphans' = IF h.pc = "asked" THEN orphans + 1 ELSE orphans
  /\ unread' = IF h.pc = "answered" THEN unread \cup {h.proc} ELSE unread
  /\ watch' = IF h.pc \in {"locking", "recorded"} THEN [watch EXCEPT ![h.reg] = NoWatch] ELSE watch
  /\ lock' = lock \ {Turn}
  /\ Set(Turn, [Idle EXCEPT !.pc = "cancelling"])
  /\ UNCHANGED <<runner, alive, record, shown, slot, doomed>>

\* request_cancellation
StopSlot ==
  /\ At(Turn, "cancelling")
  /\ IF slot # 0 /\ up THEN StopAs(proc[slot].id) ELSE UNCHANGED runner
  /\ slot' = 0
  /\ Set(Turn, Idle)
  /\ UNCHANGED <<controller, watch, orphans, doomed, unread>>

\* StopProcess of a client: the record is read, ...
BeginStop(h, id) ==
  /\ h \in Users /\ At(h, "idle") /\ alive /\ up /\ shown[id] # "none" /\ record[id] # 0
  /\ Set(h, [Idle EXCEPT !.pc = "stop", !.id = id])
  /\ UNCHANGED <<runner, controller, watch, slot, orphans, doomed, unread>>

\* ... the Runner stops what has the handle, or knows none, ...
StopForUser(h) ==
  LET id == handler[h].id IN
  /\ At(h, "stop") /\ up
  /\ \/ managed[id] # 0 /\ StopAs(id) /\ Goto(h, "remove")
     \/ managed[id] = 0 /\ UNCHANGED runner /\ Set(h, Idle)
  /\ UNCHANGED <<controller, watch, slot, orphans, doomed, unread>>

\* ... and the record goes.
RemoveRecord(h) ==
  /\ At(h, "remove")
  /\ record' = [record EXCEPT ![handler[h].id] = 0]
  /\ Set(h, Idle)
  /\ UNCHANGED <<runner, alive, shown, lock, watch, slot, orphans, doomed, unread>>

DeleteUnlocked ==   \* mutant: the deletion does not wait for a registration
  /\ alive /\ At(Turn, "idle")
  /\ alive' = FALSE
  /\ doomed' = IF up THEN doomed \cup {i \in Ids : record[i] # 0} ELSE doomed
  /\ record' = [i \in Ids |-> 0]
  /\ shown' = [i \in Ids |-> "none"]
  /\ UNCHANGED <<runner, lock, watch, handler, slot, orphans, unread>>

\* delete_thread_subtree, once ensure_deletable found no turn
Delete ==
  /\ alive /\ lock = {} /\ At(Turn, "idle")
  /\ alive' = FALSE
  /\ doomed' = IF up THEN doomed \cup {i \in Ids : record[i] # 0} ELSE doomed
  /\ record' = [i \in Ids |-> 0]
  /\ shown' = [i \in Ids |-> "none"]
  /\ UNCHANGED <<runner, lock, watch, handler, slot, orphans, unread>>

-----------------------------------------------------------------------------
StepOf(h) ==
  \/ AnswerStart(h) \/ SubscribeUser(h) \/ Register(h) \/ RegisterOccupied(h)
  \/ RegisterFails(h) \/ StopUnregistered(h) \/ View(h) \/ StopForUser(h) \/ RemoveRecord(h)

StepOfTurn ==
  \/ Hold \/ AnswerWait \/ ExecFails \/ RoundEnds \/ StopSlot
  \/ \E p \in Started : SubscribeTurn(p)

StepFor(p) == Resolve(p) \/ SendExit(p) \/ HearState(p)

Next ==
  \/ \E h \in Handlers : Exec(h) \/ StepOf(h) \/ \E id \in Ids : BeginStop(h, id)
  \/ StepOfTurn \/ Cancel \/ Delete \/ AnswerAbandonedStart \/ Disconnect
  \/ \E id \in Ids : StopInside(id) \/ StopDoomed(id)
  \/ \E p \in Started :
       Exit(p) \/ StepFor(p) \/ \E id \in Chosen : Spawn(p, id)

Spec == Init /\ [][Next]_vars

\* The Controller's tasks run, the Runner answers.
Fairness ==
  /\ \A h \in Users : WF_vars(StepOf(h))
  /\ WF_vars(StepOf(Turn) \/ StepOfTurn)
  /\ WF_vars(\E p \in Started : StepFor(p))
  /\ WF_vars(\E id \in Ids : StopDoomed(id))

FairSpec == Spec /\ Fairness

-----------------------------------------------------------------------------
\* Nothing of a deleted thread is registered or shown, although a registration
\* of its processes may be anywhere between its start and its view.
\* (register_managed_process, delete_thread_subtree)
DeletedThreadIsEmpty ==
  ~alive => \A i \in Ids : record[i] = 0 /\ shown[i] = "none"

\* A running process that the Controller started is somebody's to stop: it has
\* a record, is held by the handler that starts it or by the slot of the turn, or
\* a stop for it is on its way.  The one hole is the answer a cancelled turn did
\* not read.  (set_process, clear_process, take_thread_processes, the reader)
StartedIsHeld ==
  up => \A p \in Started : (Running(p) /\ proc[p].parent = 0) =>
    \/ record[proc[p].id] = p \/ slot = p \/ proc[p].id \in doomed \/ p \in unread
    \/ \E h \in Handlers : handler[h].proc = p

GivenOnce(id) == Cardinality({p \in Started : proc[p].id = id}) = 1

\* While the Runner is there, a process shown as ended has ended, if its id was
\* not given again.  (subscribe, watch_process)
EndedIsTrue ==
  up => \A p \in Started :
    (GivenOnce(proc[p].id) /\ shown[proc[p].id] \in {"exited", "unavailable"}) => ~Running(p)

\* Every process is kept track of, while it runs and when it ended.
ProcessesAreTracked == TypeOK /\ StartedIsHeld /\ EndedIsTrue

\* A process that ended is not shown as running for ever, unless it had written
\* more than is kept and its Runner is lost.  (watch_process, ProcessOperation::apply)
EndIsShown ==
  \A id \in Ids :
    []<>(ShownRunning(id) => Running(managed[id]) \/ (shown[id] = "overflowed" /\ ~up))
=============================================================================
