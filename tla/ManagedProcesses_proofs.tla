---------------------- MODULE ManagedProcesses_proofs ----------------------
(***************************************************************************)
(* DeletedThreadIsEmpty and ProcessesAreTracked for any number of          *)
(* processes, ids and clients.                                             *)
(*                                                                         *)
(* A view may come long after the thread was looked up; what keeps it off  *)
(* a deleted thread is the lock, held from the look-up to the view.        *)
(*                                                                         *)
(* A process stays held because each part that lets go of it either has    *)
(* handed it on or knows that it ended: on a connected Runner a running    *)
(* process has its handle, so a stop under its id ends it, and an id the   *)
(* Controller generated is of no other process.                            *)
(***************************************************************************)
EXTENDS ManagedProcesses, FiniteSetTheorems, TLAPS

HandlersKnown ==
  DOMAIN handler = Handlers /\ \A h \in Handlers : "pc" \in DOMAIN handler[h]

OneHolder == \A g, h \in lock : g = h

\* The thread of a registration between its record and its view exists, and the
\* registration holds the lock.  (register_managed_process)
RegistrationsLocked ==
  \A h \in Handlers : At(h, "recorded") => alive /\ h \in lock

DeletionInv ==
  /\ DOMAIN record = Ids /\ DOMAIN shown = Ids
  /\ HandlersKnown /\ OneHolder /\ RegistrationsLocked /\ DeletedThreadIsEmpty

\* No handler comes to "recorded".
Quiet ==
  HandlersKnown' /\ \A h \in Handlers : At(h, "recorded")' => At(h, "recorded")

\* Nothing is registered at the start.
LEMMA InitDeletion == Init => DeletionInv
  BY DEF Init, DeletionInv, HandlersKnown, OneHolder, RegistrationsLocked,
         DeletedThreadIsEmpty, At, Idle

\* A handler set to a state of another name does not come to "recorded".
LEMMA SetIsQuiet ==
  ASSUME HandlersKnown, NEW h \in Handlers, NEW new, Set(h, new),
         "pc" \in DOMAIN new, new.pc # "recorded"
  PROVE  Quiet
  BY DEF HandlersKnown, Set, Quiet, At

\* Neither does one that goes to another name.
LEMMA GotoIsQuiet ==
  ASSUME HandlersKnown, NEW h \in Handlers, NEW pc, Goto(h, pc), pc # "recorded"
  PROVE  Quiet
  BY DEF HandlersKnown, Goto, Quiet, At

\* Steps that leave the thread, and what is registered and shown, alone.
LEMMA QuietSteps ==
  ASSUME DeletionInv, UNCHANGED controller, Quiet
  PROVE  DeletionInv'
  BY DEF DeletionInv, OneHolder, RegistrationsLocked, DeletedThreadIsEmpty, At,
         controller, Quiet

\* The states of a handler that are built anew have a name.
LEMMA IdleNamed ==
  /\ "pc" \in DOMAIN Idle /\ Idle.pc = "idle"
  /\ \A id : LET new == [Idle EXCEPT !.pc = "stop", !.id = id] IN
       "pc" \in DOMAIN new /\ new.pc = "stop"
  /\ \A p : LET new == [Idle EXCEPT !.pc = "answered", !.proc = p] IN
       "pc" \in DOMAIN new /\ new.pc = "answered"
  /\ LET new == [Idle EXCEPT !.pc = "cancelling"] IN
       "pc" \in DOMAIN new /\ new.pc = "cancelling"
  BY DEF Idle

\* The turn is one of the handlers.
LEMMA TurnIsHandler == Turn \in Handlers /\ Users \subseteq Handlers
  BY DEF Handlers

\* The steps that start, hear of and stop processes neither look the thread up
\* for a registration nor end one.
LEMMA OtherSteps ==
  ASSUME DeletionInv, UNCHANGED controller,
         \/ UNCHANGED handler \/ Disconnect \/ Hold \/ AnswerWait \/ ExecFails
         \/ RoundEnds \/ StopSlot
         \/ \E p \in Started : SubscribeTurn(p)
         \/ \E h \in Handlers :
              \/ Exec(h) \/ AnswerStart(h) \/ SubscribeUser(h) \/ RegisterOccupied(h)
              \/ RegisterFails(h) \/ StopUnregistered(h) \/ StopForUser(h)
              \/ \E id \in Ids : BeginStop(h, id)
  PROVE  DeletionInv'
  <1>k. HandlersKnown
    BY DEF DeletionInv
  <1> SUFFICES Quiet
    BY QuietSteps
  <1>1. CASE UNCHANGED handler
    BY <1>k, <1>1 DEF Quiet, HandlersKnown, At
  <1>2. CASE Disconnect
    BY <1>k, <1>2 DEF Disconnect, Quiet, HandlersKnown, At, Idle
  <1>3. CASE Hold
    BY <1>k, <1>3, GotoIsQuiet, TurnIsHandler DEF Hold
  <1>4. CASE AnswerWait
    <2>1. PICK then, todo : Set(Turn, [handler[Turn] EXCEPT
                              !.pc = "registering", !.then = then, !.todo = todo])
      BY <1>4 DEF AnswerWait
    <2> QED
      BY <2>1, <1>k, TurnIsHandler, SetIsQuiet DEF HandlersKnown
  <1>5. CASE ExecFails
    BY <1>k, <1>5, SetIsQuiet, TurnIsHandler, IdleNamed DEF ExecFails
  <1>6. CASE RoundEnds
    BY <1>k, <1>6, SetIsQuiet, GotoIsQuiet, TurnIsHandler, IdleNamed DEF RoundEnds
  <1>7. CASE StopSlot
    BY <1>k, <1>7, SetIsQuiet, TurnIsHandler, IdleNamed DEF StopSlot
  <1>s. ASSUME NEW h \in Handlers, NEW p, Subscribe(h, p)
        PROVE  Quiet
    BY <1>k, <1>s, SetIsQuiet DEF Subscribe, HandlersKnown
  <1>8. ASSUME NEW p \in Started, SubscribeTurn(p)
        PROVE  Quiet
    BY <1>8, <1>s, TurnIsHandler DEF SubscribeTurn
  <1>9. ASSUME NEW h \in Handlers, Exec(h)
        PROVE  Quiet
    BY <1>k, <1>9, GotoIsQuiet DEF Exec
  <1>10. ASSUME NEW h \in Handlers, AnswerStart(h)
         PROVE  Quiet
    BY <1>k, <1>10, SetIsQuiet, IdleNamed DEF AnswerStart
  <1>11. ASSUME NEW h \in Handlers, SubscribeUser(h)
         PROVE  Quiet
    BY <1>11, <1>s DEF SubscribeUser
  <1>12. ASSUME NEW h \in Handlers, RegisterOccupied(h)
         PROVE  Quiet
    BY <1>k, <1>12, SetIsQuiet, GotoIsQuiet, IdleNamed DEF RegisterOccupied
  <1>13. ASSUME NEW h \in Handlers, RegisterFails(h)
         PROVE  Quiet
    BY <1>k, <1>13, GotoIsQuiet DEF RegisterFails
  <1>14. ASSUME NEW h \in Handlers, StopUnregistered(h)
         PROVE  Quiet
    BY <1>k, <1>14, SetIsQuiet, IdleNamed DEF StopUnregistered
  <1>15. ASSUME NEW h \in Handlers, StopForUser(h)
         PROVE  Quiet
    BY <1>k, <1>15, SetIsQuiet, GotoIsQuiet, IdleNamed DEF StopForUser
  <1>16. ASSUME NEW h \in Handlers, NEW id \in Ids, BeginStop(h, id)
         PROVE  Quiet
    BY <1>k, <1>16, SetIsQuiet, IdleNamed DEF BeginStop
  <1> QED
    BY <1>1, <1>2, <1>3, <1>4, <1>5, <1>6, <1>7, <1>8, <1>9, <1>10, <1>11, <1>12,
       <1>13, <1>14, <1>15, <1>16

\* The lock is free, so the registration that takes it is the only one.
LEMMA RegisterStep ==
  ASSUME DeletionInv, NEW h \in Handlers, Register(h)
  PROVE  DeletionInv'
  <1>1. HandlersKnown' /\ \A g \in Handlers : At(g, "recorded")' => At(g, "recorded") \/ g = h
    BY DEF DeletionInv, HandlersKnown, Register, Goto, At
  <1>2. alive' /\ lock' = {h} /\ DOMAIN record' = Ids /\ DOMAIN shown' = Ids
    BY DEF Register, DeletionInv
  <1>3. RegistrationsLocked'
    BY <1>1, <1>2 DEF RegistrationsLocked, DeletionInv, Register, At
  <1> QED
    BY <1>1, <1>2, <1>3 DEF DeletionInv, OneHolder, DeletedThreadIsEmpty

\* The view comes while the thread still exists, and its lock is freed.
LEMMA ViewStep ==
  ASSUME DeletionInv, NEW h \in Handlers, View(h)
  PROVE  DeletionInv'
  <1>k. HandlersKnown
    BY DEF DeletionInv
  <1>1. Quiet
    BY <1>k, SetIsQuiet, GotoIsQuiet, IdleNamed DEF View
  <1>2. alive' /\ lock' = {} /\ DOMAIN record' = Ids /\ DOMAIN shown' = Ids
    BY DEF View, DeletionInv, RegistrationsLocked
  <1>3. ~At(h, "recorded")'
    <2>1. CASE \E pc \in {"registering"} : Goto(h, pc)
      BY <2>1, <1>k DEF Goto, At, HandlersKnown
    <2>2. CASE Set(h, Idle)
      BY <2>2, <1>k DEF Set, At, Idle, HandlersKnown
    <2> QED
      BY <2>1, <2>2 DEF View
  <1>4. \A g \in Handlers : ~At(g, "recorded")'
    BY <1>1, <1>3 DEF Quiet, DeletionInv, RegistrationsLocked, OneHolder, View
  <1> QED
    BY <1>1, <1>2, <1>4 DEF DeletionInv, Quiet, OneHolder, RegistrationsLocked, DeletedThreadIsEmpty

\* A state is heard only of what is shown, and of a deleted thread nothing is.
LEMMA HearStep ==
  ASSUME DeletionInv, NEW p \in Started, HearState(p)
  PROVE  DeletionInv'
  <1>1. /\ UNCHANGED <<alive, record, lock, handler>>
        /\ \/ shown' = shown
           \/ \E id, status : shown[id] # "none" /\ shown' = [shown EXCEPT ![id] = status]
    BY DEF HearState, Refused
  <1>2. DOMAIN shown' = Ids /\ DeletedThreadIsEmpty'
    BY <1>1 DEF DeletionInv, DeletedThreadIsEmpty
  <1> QED
    BY <1>1, <1>2 DEF DeletionInv, HandlersKnown, OneHolder, RegistrationsLocked, At

\* The dropped registration frees the lock, and shows nothing.
LEMMA CancelStep ==
  ASSUME DeletionInv, Cancel
  PROVE  DeletionInv'
  <1>k. HandlersKnown
    BY DEF DeletionInv
  <1>1. Set(Turn, [Idle EXCEPT !.pc = "cancelling"]) /\ lock' = lock \ {Turn}
        /\ UNCHANGED <<alive, record, shown>>
    BY DEF Cancel
  <1>2. Quiet
    BY <1>1, <1>k, SetIsQuiet, TurnIsHandler, IdleNamed
  <1>3. ~At(Turn, "recorded")'
    BY <1>1, <1>k, TurnIsHandler DEF Set, At, Idle, HandlersKnown
  <1>4. RegistrationsLocked'
    BY <1>1, <1>2, <1>3 DEF DeletionInv, RegistrationsLocked, Quiet, At
  <1> QED
    BY <1>1, <1>2, <1>4 DEF DeletionInv, Quiet, OneHolder, DeletedThreadIsEmpty

\* A record goes, whether the thread exists or not.
LEMMA RemoveStep ==
  ASSUME DeletionInv, NEW h \in Handlers, RemoveRecord(h)
  PROVE  DeletionInv'
  <1>1. Quiet
    BY SetIsQuiet, IdleNamed DEF RemoveRecord, DeletionInv
  <1>2. UNCHANGED <<alive, shown, lock>> /\ \E id : record' = [record EXCEPT ![id] = 0]
    BY DEF RemoveRecord
  <1>3. DOMAIN record' = Ids /\ DeletedThreadIsEmpty'
    BY <1>2 DEF DeletionInv, DeletedThreadIsEmpty
  <1> QED
    BY <1>1, <1>2, <1>3 DEF DeletionInv, Quiet, OneHolder, RegistrationsLocked, At

\* The deletion takes what is registered and shown, and waits for the lock, so
\* no registration is between its look-up and its view.
LEMMA DeleteStep ==
  ASSUME DeletionInv, Delete
  PROVE  DeletionInv'
  BY DEF DeletionInv, Delete, HandlersKnown, OneHolder, RegistrationsLocked,
         DeletedThreadIsEmpty, At

\* Every step keeps what the deletion relies on.
LEMMA NextDeletion == DeletionInv /\ [Next]_vars => DeletionInv'
  <1> SUFFICES ASSUME DeletionInv, [Next]_vars PROVE DeletionInv'
    OBVIOUS
  <1>1. CASE UNCHANGED vars
    BY <1>1, OtherSteps DEF vars
  <1>2. ASSUME NEW h \in Handlers, Exec(h) \/ \E id \in Ids : BeginStop(h, id)
        PROVE  DeletionInv'
    BY <1>2, OtherSteps DEF Exec, BeginStop
  <1>3. ASSUME NEW h \in Handlers, StepOf(h)
        PROVE  DeletionInv'
    <2>1. CASE Register(h)
      BY <2>1, RegisterStep
    <2>2. CASE View(h)
      BY <2>2, ViewStep
    <2>3. CASE RemoveRecord(h)
      BY <2>3, RemoveStep
    <2>4. CASE AnswerStart(h)
      BY <2>4, OtherSteps DEF AnswerStart
    <2>5. CASE SubscribeUser(h)
      BY <2>5, OtherSteps DEF SubscribeUser, Subscribe
    <2>6. CASE RegisterOccupied(h) \/ RegisterFails(h)
      BY <2>6, OtherSteps DEF RegisterOccupied, RegisterFails
    <2>7. CASE StopUnregistered(h) \/ StopForUser(h)
      BY <2>7, OtherSteps DEF StopUnregistered, StopForUser
    <2> QED
      BY <1>3, <2>1, <2>2, <2>3, <2>4, <2>5, <2>6, <2>7 DEF StepOf
  <1>4. CASE StepOfTurn
    <2>1. UNCHANGED controller
      BY <1>4 DEF StepOfTurn, Hold, AnswerWait, ExecFails, RoundEnds, StopSlot,
                  SubscribeTurn, Subscribe
    <2> QED
      BY <1>4, <2>1, OtherSteps DEF StepOfTurn
  <1>5. CASE Cancel \/ Delete
    BY <1>5, CancelStep, DeleteStep
  <1>6. CASE AnswerAbandonedStart \/ Disconnect
    BY <1>6, OtherSteps DEF AnswerAbandonedStart, Disconnect
  <1>7. ASSUME NEW id \in Ids, StopInside(id) \/ StopDoomed(id)
        PROVE  DeletionInv'
    BY <1>7, OtherSteps DEF StopInside, StopDoomed
  <1>8. ASSUME NEW p \in Started, Exit(p) \/ \E id \in Chosen : Spawn(p, id)
        PROVE  DeletionInv'
    BY <1>8, OtherSteps DEF Exit, Spawn
  <1>9. ASSUME NEW p \in Started, StepFor(p)
        PROVE  DeletionInv'
    BY <1>9, OtherSteps, HearStep DEF StepFor, Resolve, SendExit
  <1> QED
    BY <1>1, <1>2, <1>3, <1>4, <1>5, <1>6, <1>7, <1>8, <1>9 DEF Next

\* Nothing of a deleted thread is registered or shown, for any number of
\* processes, clients and registrations in progress.
\* (register_managed_process, delete_thread_subtree)
THEOREM DeletionIsComplete == Spec => []DeletedThreadIsEmpty
  <1>1. DeletionInv => DeletedThreadIsEmpty
    BY DEF DeletionInv
  <1> QED
    BY <1>1, InitDeletion, NextDeletion, PTL DEF Spec

-----------------------------------------------------------------------------
(* ProcessesAreTracked.  Its inductive invariant has a part for the Runner,  *)
(* for each handler, for the slot of the turn, for the records, for each     *)
(* watcher and for what is shown.                                            *)

\* The types of the records are read as they are written.
USE DEF Process, Handling, Watcher

\* A process that runs on a connected Runner has its handle; an id the
\* Controller generated is the process's own.
RunnerSound ==
  /\ up \in BOOLEAN
  /\ Latest \in Nat /\ Started = 1..Latest /\ Latest <= MaxProcs
  /\ \A p \in Started : proc[p] \in
       Process
  /\ \A p \in Started : IF proc[p].parent = 0 THEN proc[p].id = p ELSE proc[p].id \in Chosen
  /\ managed \in [Ids -> Started \cup {0}]
  /\ \A p \in Started : \A i \in Ids : managed[i] = p => proc[p].id = i
  /\ up => \A p \in Started : proc[p].running => managed[proc[p].id] = p

Given(id) == \E p \in Started : proc[p].id = id

\* What the state of a handler says of the processes.
HandlerFits(w) ==
  /\ w \in Handling
  /\ w.proc # 0 => proc[w.proc].parent = 0
  /\ w.proc = 0 <=> w.pc \in {"idle", "asked", "stop", "remove", "cancelling"}
  /\ w.pc \in {"locking", "recorded"} => w.reg # 0
  /\ w.pc \in {"stop", "remove"} => Given(w.id)
  /\ w.pc = "remove" =>
       \A p \in Started : proc[p].parent = 0 /\ p = w.id => ~proc[p].running

UserFits(w) ==
  /\ w.pc \notin {"waiting", "registering", "cancelling"}
  /\ w.pc \in {"locking", "recorded"} => w.reg = w.proc

InExecution == {"waiting", "registering", "locking", "recorded"}

TurnFits(w) ==
  /\ w.pc \notin {"unwinding", "stop", "remove"}
  /\ w.pc \in InExecution => slot = w.proc
  /\ w.pc \in InExecution /\ w.pc # "waiting" /\ w.then = "end" => ~proc[w.proc].running

\* The slot is of the execution under way, or of a process that ended.
SlotSound ==
  /\ slot \in Started \cup {0}
  /\ slot # 0 => proc[slot].parent = 0
  /\ (up /\ slot # 0 /\ handler[Turn].pc \notin InExecution \cup {"cancelling"})
       => ~proc[slot].running

HandlersSound ==
  /\ DOMAIN handler = Handlers
  /\ \A h \in Handlers : HandlerFits(handler[h])
  /\ \A h \in Users : UserFits(handler[h])
  /\ TurnFits(handler[Turn])

\* A registration that has its record keeps it until it is shown, unless the
\* process was stopped.
RecordsSound ==
  /\ record \in [Ids -> Started \cup {0}]
  /\ \A p \in Started : \A i \in Ids : record[i] = p => proc[p].id = i
  /\ \A h \in Handlers : LET p == handler[h].reg IN
       At(h, "recorded") /\ proc[p].parent = 0 => record[p] = p \/ ~proc[p].running

Alone(p) == \A q \in Started : proc[q].id = proc[p].id => q = p

WatchFits(p, w) ==
  /\ w \in Watcher
  /\ p \notin Started => w = NoWatch
  /\ w.of # 0 => proc[w.of].id = proc[p].id
  /\ w.pc = "on" => w.of # 0
  /\ w.mail = "exited" => w.of # 0 /\ ~proc[w.of].running
  /\ (up /\ w.pc = "end" /\ Alone(p)) => ~proc[p].running

WatchesSound ==
  /\ watch = [p \in Procs |-> watch[p]]
  /\ \A p \in Procs : WatchFits(p, watch[p])

ShownSound ==
  /\ shown \in [Ids -> {"none", "running", "overflowed", "exited", "unavailable"}]
  /\ \A i \in Ids : shown[i] # "none" => Given(i)
  /\ up => \A p \in Started :
       Alone(p) /\ shown[proc[p].id] \in {"exited", "unavailable"} => ~proc[p].running

Asked == {h \in Handlers : At(h, "asked")}

RequestsCounted ==
  /\ orphans \in Nat /\ orphans + Cardinality(Asked) <= MaxProcs
  /\ doomed \in SUBSET Ids /\ unread \in SUBSET Started

LockSound == alive \in BOOLEAN /\ (lock = {} \/ \E h \in Handlers : lock = {h})

Held(p) ==
  \/ record[p] = p \/ slot = p \/ p \in doomed \/ p \in unread
  \/ \E h \in Handlers : handler[h].proc = p

ProcessesHeld ==
  up => \A p \in Started : proc[p].running /\ proc[p].parent = 0 => Held(p)

Tracked ==
  /\ RunnerSound /\ HandlersSound /\ SlotSound /\ RecordsSound /\ WatchesSound
  /\ ShownSound /\ RequestsCounted /\ LockSound /\ ProcessesHeld

IInv == DeletionInv /\ Tracked

-----------------------------------------------------------------------------
(* The Runner.                                                             *)

\* Processes are only added, and end once; an id the Controller generates was
\* never given before.
Grows ==
  /\ up' => up
  /\ Started \subseteq Started'
  /\ \A p \in Started :
       /\ proc'[p].id = proc[p].id /\ proc'[p].parent = proc[p].parent
       /\ proc'[p].running => proc[p].running
  /\ \A p \in Started' \ Started :
       p \in Procs /\ proc'[p].id \in Ids /\ (proc'[p].parent = 0 => ~Given(p))

\* Zero is no id, and a chosen id is no number.
LEMMA IdsKnown == Chosen \subseteq Ids /\ Procs \subseteq Ids /\ 0 \notin Ids /\ Chosen \cap Nat = {}
  BY ConstantsAssumption DEF Ids, Procs

\* A started process is a number, and has an id.
LEMMA StartedKnown ==
  ASSUME RunnerSound, NEW p \in Started
  PROVE  /\ p \in Procs /\ p # 0 /\ p \in Nat /\ p <= Latest /\ p \in Ids
         /\ proc[p].id \in Ids /\ proc[p].parent \in Started \cup {0}
         /\ proc[p].running \in BOOLEAN /\ proc[p].news \subseteq Started
  BY IdsKnown, ConstantsAssumption DEF RunnerSound, Procs

\* The id of a process the Controller started is of no other process.
LEMMA OwnId ==
  ASSUME RunnerSound, NEW p \in Started, NEW q \in Started, proc[p].parent = 0,
         proc[q].id = proc[p].id
  PROVE  q = p
  BY StartedKnown, IdsKnown DEF RunnerSound

\* The process started has the handle it asked for, which no running process had.
LEMMA StartRunner ==
  ASSUME RunnerSound, NEW id \in Ids, NEW parent \in Started \cup {0}, StartAs(id, parent),
         IF parent = 0 THEN id = Latest + 1 ELSE id \in Chosen
  PROVE  /\ RunnerSound' /\ Grows
         /\ Started' = Started \cup {Latest + 1} /\ Latest + 1 \notin Started
         /\ proc'[Latest + 1].id = id /\ proc'[Latest + 1].parent = parent
         /\ \A p \in Started' : p = Latest + 1 \/ p \in Started
  <1> DEFINE n == Latest + 1
             new == [id |-> id, parent |-> parent, running |-> TRUE, news |-> {}]
             more(q) == [proc[q] EXCEPT !.news = @ \cup {n}]
  <1>n. Latest \in Nat /\ n \in Nat /\ Started = 1..Latest
    BY DEF RunnerSound
  <1>1. /\ up /\ n <= MaxProcs /\ managed[id] = 0 /\ up' = up
        /\ managed' = [managed EXCEPT ![id] = n]
        /\ proc' = [q \in 1..n |-> IF q = n THEN new
                                   ELSE IF q = parent THEN more(q) ELSE proc[q]]
    BY DEF StartAs
  <1>2. Started' = 1..n /\ Started' = Started \cup {n} /\ n \notin Started
    <2>1. Started' = 1..n
      BY <1>1 DEF Started
    <2>2. 1..n = (1..Latest) \cup {n} /\ n \notin 1..Latest
      BY <1>n
    <2> QED
      BY <2>1, <2>2, <1>n
  <1>3. Latest' = n
    <2>1. Latest' = Cardinality(1..n)
      BY <1>2 DEF Latest
    <2>2. 1 \in Int /\ n \in Int /\ ~(1 > n) /\ n - 1 + 1 = n
      BY <1>n
    <2>3. Cardinality(1..n) = n
      BY <2>2, FS_Interval
    <2> QED
      BY <2>1, <2>3
  <1>4. n \in Procs /\ n \in Ids
    BY <1>1, <1>n, IdsKnown, ConstantsAssumption DEF Procs
  <1>5. proc'[n] = new /\ new \in Process'
    BY <1>1, <1>2
  <1>6. ASSUME NEW q \in Started
        PROVE  /\ proc'[q] \in Process'
               /\ proc'[q].id = proc[q].id /\ proc'[q].parent = proc[q].parent
               /\ proc'[q].running = proc[q].running
    <2>1. proc[q] \in Process
      BY DEF RunnerSound
    <2>2. proc'[q] = IF q = parent THEN more(q) ELSE proc[q]
      BY <1>1, <1>2
    <2>3. CASE q = parent
      BY <2>1, <2>2, <2>3, <1>2
    <2>4. CASE q # parent
      BY <2>1, <2>2, <2>4, <1>2
    <2> QED
      BY <2>3, <2>4
  <1>7. ~Given(n) \/ parent # 0
    BY <1>2, StartedKnown, IdsKnown, <1>n DEF Given, RunnerSound
  <1>8. Grows
    BY <1>1, <1>2, <1>4, <1>5, <1>6, <1>7 DEF Grows
  <1>9. \A p \in Started' : proc'[p] \in Process'
    BY <1>2, <1>5, <1>6
  <1>10. \A p \in Started' : IF proc'[p].parent = 0 THEN proc'[p].id = p ELSE proc'[p].id \in Chosen
    <2>1. \A p \in Started : IF proc[p].parent = 0 THEN proc[p].id = p ELSE proc[p].id \in Chosen
      BY DEF RunnerSound
    <2> QED
      BY <2>1, <1>2, <1>5, <1>6
  <1>m. managed \in [Ids -> Started \cup {0}]
    BY DEF RunnerSound
  <1>11. managed' \in [Ids -> Started' \cup {0}]
    BY <1>m, <1>1, <1>2
  <1>12. \A p \in Started' : \A i \in Ids : managed'[i] = p => proc'[p].id = i
    <2>0. \A p \in Started : \A i \in Ids : managed[i] = p => proc[p].id = i
      BY DEF RunnerSound
    <2>1. \A i \in Ids : IF i = id THEN managed'[i] = n ELSE managed'[i] = managed[i] /\ managed[i] # n
      BY <1>m, <1>1, <1>2, <1>n
    <2> QED
      BY <2>0, <2>1, <1>2, <1>5, <1>6
  <1>13. \A p \in Started' : proc'[p].running => managed'[proc'[p].id] = p
    <2>1. \A p \in Started : proc[p].running => managed[proc[p].id] = p /\ proc[p].id # id
      BY <1>1, StartedKnown DEF RunnerSound
    <2> QED
      BY <2>1, <1>m, <1>1, <1>2, <1>5, <1>6, StartedKnown
  <1>14. RunnerSound'
    BY <1>1, <1>2, <1>3, <1>9, <1>10, <1>11, <1>12, <1>13, <1>n DEF RunnerSound
  <1> QED
    BY <1>14, <1>8, <1>2, <1>5

\* Steps of the Runner that start nothing, and keep or end what runs.
LEMMA RunnerKept ==
  ASSUME RunnerSound, up' \in BOOLEAN, up' => up, DOMAIN proc' = Started,
         \A p \in Started :
           /\ proc'[p] \in Process
           /\ proc'[p].id = proc[p].id /\ proc'[p].parent = proc[p].parent
           /\ proc'[p].running => proc[p].running,
         managed' \in [Ids -> Started \cup {0}],
         \A i \in Ids : managed'[i] # managed[i] =>
           /\ managed'[i] = 0
           /\ up' => \A p \in Started : proc'[p].running => proc[p].id # i
  PROVE  RunnerSound' /\ Grows /\ Started' = Started
  <1>1. Started' = Started /\ Latest' = Latest
    BY DEF Started, Latest
  <1>2. Grows
    BY <1>1 DEF Grows
  <1>3. \A p \in Started : IF proc'[p].parent = 0 THEN proc'[p].id = p ELSE proc'[p].id \in Chosen
    BY DEF RunnerSound
  <1>4. \A p \in Started : \A i \in Ids : managed'[i] = p => proc'[p].id = i
    BY StartedKnown DEF RunnerSound
  <1>5. up' => \A p \in Started : proc'[p].running => managed'[proc'[p].id] = p
    BY StartedKnown DEF RunnerSound
  <1>6. Latest \in Nat /\ Started = 1..Latest /\ Latest <= MaxProcs
    BY DEF RunnerSound
  <1> QED
    BY <1>1, <1>2, <1>3, <1>4, <1>5, <1>6 DEF RunnerSound

\* After a stop no process with this handle runs.
LEMMA StopRunner ==
  ASSUME RunnerSound, up, NEW id \in Ids, StopAs(id)
  PROVE  /\ RunnerSound' /\ Grows /\ Started' = Started
         /\ \A p \in Started : proc[p].id = id => ~proc'[p].running
  <1>1. /\ proc' = [p \in Started |-> IF p = managed[id] THEN [proc[p] EXCEPT !.running = FALSE]
                                                         ELSE proc[p]]
        /\ managed' = [managed EXCEPT ![id] = 0] /\ up' = up
    BY DEF StopAs
  <1>m. managed \in [Ids -> Started \cup {0}] /\ up \in BOOLEAN
    BY DEF RunnerSound
  <1>2. DOMAIN proc' = Started
    BY <1>1
  <1>3. ASSUME NEW p \in Started
        PROVE  /\ proc'[p] \in Process
               /\ proc'[p].id = proc[p].id /\ proc'[p].parent = proc[p].parent
               /\ proc'[p].running => proc[p].running
               /\ p = managed[id] => ~proc'[p].running
    <2>1. proc[p] \in Process
      BY DEF RunnerSound
    <2>2. proc'[p] = IF p = managed[id] THEN [proc[p] EXCEPT !.running = FALSE] ELSE proc[p]
      BY <1>1
    <2> QED
      BY <2>1, <2>2
  <1>4. managed' \in [Ids -> Started \cup {0}] /\ \A i \in Ids : managed'[i] # managed[i] => i = id /\ managed'[i] = 0
    BY <1>1, <1>m
  <1>5. \A p \in Started : proc[p].id = id => ~proc'[p].running
    BY <1>3 DEF RunnerSound
  <1>6. up' \in BOOLEAN /\ (up' => up)
    BY <1>1, <1>m
  <1>7. RunnerSound' /\ Grows /\ Started' = Started
    BY <1>2, <1>3, <1>4, <1>5, <1>6, RunnerKept
  <1> QED
    BY <1>5, <1>7

\* A process ends by itself.
LEMMA ExitRunner ==
  ASSUME RunnerSound, NEW p \in Started, Exit(p)
  PROVE  RunnerSound' /\ Grows /\ Started' = Started
  <1>1. proc' = [proc EXCEPT ![p].running = FALSE] /\ managed' = managed /\ up' = up
    BY DEF Exit
  <1>2. ASSUME NEW q \in Started
        PROVE  /\ proc'[q] \in Process
               /\ proc'[q].id = proc[q].id /\ proc'[q].parent = proc[q].parent
               /\ proc'[q].running => proc[q].running
    <2>1. proc[q] \in Process
      BY DEF RunnerSound
    <2>2. proc'[q] = IF q = p THEN [proc[q] EXCEPT !.running = FALSE] ELSE proc[q]
      BY <1>1 DEF Started
    <2> QED
      BY <2>1, <2>2
  <1>3. DOMAIN proc' = Started
    BY <1>1 DEF Started
  <1>4. managed' \in [Ids -> Started \cup {0}] /\ up' \in BOOLEAN
    BY <1>1 DEF RunnerSound
  <1> QED
    BY <1>1, <1>2, <1>3, <1>4, RunnerKept

\* A step that leaves the Runner alone.
LEMMA RunnerSame ==
  ASSUME RunnerSound, UNCHANGED runner
  PROVE  RunnerSound' /\ Grows /\ Started' = Started
  <1>1. proc' = proc /\ managed' = managed /\ up' = up
    BY DEF runner
  <1>2. Started' = Started
    BY <1>1 DEF Started
  <1>3. Grows
    BY <1>1, <1>2 DEF Grows
  <1>4. RunnerSound'
    BY <1>1, <1>2 DEF RunnerSound, Latest
  <1> QED
    BY <1>2, <1>3, <1>4

\* The Runner is lost: nothing has a handle any more.
LEMMA DisconnectRunner ==
  ASSUME RunnerSound, Disconnect
  PROVE  RunnerSound' /\ Grows /\ Started' = Started
  <1>1. up' = FALSE /\ managed' = [i \in Ids |-> 0] /\ proc' = proc
    BY DEF Disconnect
  <1>2. DOMAIN proc' = Started /\ \A p \in Started : proc'[p] \in
          Process
    BY <1>1 DEF RunnerSound, Started
  <1>3. managed' \in [Ids -> Started \cup {0}]
    BY <1>1
  <1>4. \A i \in Ids : managed'[i] = 0
    BY <1>1
  <1> QED
    BY <1>1, <1>2, <1>3, <1>4, RunnerKept

\* The answer to a wait takes the news, and a finished process its handle.
LEMMA WaitRunner ==
  ASSUME RunnerSound, NEW p \in Started, proc[p].parent = 0, up' = up,
         proc' = [proc EXCEPT ![p].news = {}],
         \/ UNCHANGED managed
         \/ managed' = [managed EXCEPT ![proc[p].id] = 0] /\ ~proc[p].running
  PROVE  RunnerSound' /\ Grows /\ Started' = Started
  <1>2. ASSUME NEW q \in Started
        PROVE  /\ proc'[q] \in Process
               /\ proc'[q].id = proc[q].id /\ proc'[q].parent = proc[q].parent
               /\ proc'[q].running = proc[q].running
    <2>1. proc[q] \in Process
      BY DEF RunnerSound
    <2>2. proc'[q] = IF q = p THEN [proc[q] EXCEPT !.news = {}] ELSE proc[q]
      BY DEF Started
    <2> QED
      BY <2>1, <2>2
  <1>3. DOMAIN proc' = Started
    BY DEF Started
  <1>4. managed \in [Ids -> Started \cup {0}] /\ up' \in BOOLEAN /\ proc[p].id \in Ids
    BY StartedKnown DEF RunnerSound
  <1>5. managed' \in [Ids -> Started \cup {0}]
    BY <1>4
  <1>6. \A i \in Ids : managed'[i] # managed[i] =>
          managed'[i] = 0 /\ i = proc[p].id /\ ~proc[p].running
    BY <1>4
  <1>7. \A q \in Started : proc[q].running /\ ~proc[p].running => proc[q].id # proc[p].id
    BY OwnId
  <1>8. \A i \in Ids : managed'[i] # managed[i] =>
          managed'[i] = 0 /\ (up' => \A q \in Started : proc'[q].running => proc[q].id # i)
    BY <1>2, <1>6, <1>7
  <1> QED
    BY <1>2, <1>3, <1>4, <1>5, <1>8, RunnerKept

-----------------------------------------------------------------------------
(* What a step of the Runner leaves of the other parts.                    *)

\* What a handler knows of the processes stays true while they are added and end.
LEMMA HandlerKept ==
  ASSUME RunnerSound, Grows, NEW w, HandlerFits(w)
  PROVE  HandlerFits(w)'
  <1>1. w \in Handling
    BY DEF HandlerFits
  <1>2. Started \subseteq Started'
    BY DEF Grows
  <1>3. w \in Handling'
    BY <1>1, <1>2
  <1>4. w.proc # 0 => proc'[w.proc].parent = 0
    BY <1>1 DEF HandlerFits, Grows
  <1>5. w.pc \in {"stop", "remove"} => Given(w.id)'
    BY <1>2 DEF HandlerFits, Grows, Given
  <1>6. w.pc = "remove" =>
          \A p \in Started' : proc'[p].parent = 0 /\ p = w.id => ~proc'[p].running
    BY DEF HandlerFits, Grows
  <1>7. /\ w.proc = 0 <=> w.pc \in {"idle", "asked", "stop", "remove", "cancelling"}
        /\ w.pc \in {"locking", "recorded"} => w.reg # 0
    BY DEF HandlerFits
  <1> QED
    BY <1>3, <1>4, <1>5, <1>6, <1>7 DEF HandlerFits

\* What the turn knows stays true, too.
LEMMA TurnKept ==
  ASSUME RunnerSound, Grows, UNCHANGED slot, NEW w, HandlerFits(w), TurnFits(w)
  PROVE  TurnFits(w)'
  <1>1. w.pc \in InExecution => w.proc \in Started
    BY DEF HandlerFits, InExecution
  <1> QED
    BY <1>1 DEF TurnFits, Grows

\* One handler moves.
LEMMA OneMoves ==
  ASSUME RunnerSound, Grows, HandlersSound, NEW h \in Handlers, NEW w,
         Set(h, w), HandlerFits(w)',
         h \in Users => UserFits(w) /\ slot' = slot, h = Turn => TurnFits(w)'
  PROVE  HandlersSound'
  <1>1. /\ DOMAIN handler' = Handlers
        /\ \A g \in Handlers : handler'[g] = IF g = h THEN w ELSE handler[g]
    BY DEF HandlersSound, Set
  <1>2. \A g \in Handlers : HandlerFits(handler[g])'
    <2> SUFFICES ASSUME NEW g \in Handlers PROVE HandlerFits(handler[g])'
      OBVIOUS
    <2>1. CASE g = h
      BY <2>1, <1>1
    <2>2. CASE g # h
      <3>1. PICK v : v = handler[g]
        OBVIOUS
      <3>2. HandlerFits(v)
        BY <3>1 DEF HandlersSound
      <3>3. HandlerFits(v)'
        BY <3>2, HandlerKept
      <3> QED
        BY <3>1, <3>3, <2>2, <1>1
    <2> QED
      BY <2>1, <2>2
  <1>3. \A g \in Users : UserFits(handler'[g])
    BY <1>1, ConstantsAssumption DEF HandlersSound, Handlers
  <1>4. TurnFits(handler[Turn])'
    <2>1. CASE h = Turn
      BY <2>1, <1>1
    <2>2. CASE h # Turn
      <3>1. PICK v : v = handler[Turn]
        OBVIOUS
      <3>2. HandlerFits(v) /\ TurnFits(v) /\ slot' = slot
        BY <3>1, <2>2, TurnIsHandler DEF HandlersSound, Handlers
      <3>3. TurnFits(v)'
        BY <3>2, TurnKept
      <3> QED
        BY <3>1, <3>3, <2>2, <1>1, TurnIsHandler
    <2> QED
      BY <2>1, <2>2
  <1> QED
    BY <1>1, <1>2, <1>3, <1>4 DEF HandlersSound, UserFits

\* No handler moves.
LEMMA HandlersKept ==
  ASSUME RunnerSound, Grows, HandlersSound, UNCHANGED <<handler, slot>>
  PROVE  HandlersSound'
  <1>1. \A g \in Handlers : HandlerFits(handler[g])'
    <2> SUFFICES ASSUME NEW g \in Handlers PROVE HandlerFits(handler[g])'
      OBVIOUS
    <2>1. PICK v : v = handler[g]
      OBVIOUS
    <2>2. HandlerFits(v)
      BY <2>1 DEF HandlersSound
    <2>3. HandlerFits(v)'
      BY <2>2, HandlerKept
    <2> QED
      BY <2>1, <2>3
  <1>2. TurnFits(handler[Turn])'
    <2>1. PICK v : v = handler[Turn]
      OBVIOUS
    <2>2. HandlerFits(v) /\ TurnFits(v)
      BY <2>1, TurnIsHandler DEF HandlersSound
    <2>3. TurnFits(v)'
      BY <2>2, TurnKept
    <2> QED
      BY <2>1, <2>3
  <1> QED
    BY <1>1, <1>2 DEF HandlersSound, UserFits

\* The slot stays, and the turn does not leave its execution.
LEMMA SlotKept ==
  ASSUME RunnerSound, Grows, SlotSound, UNCHANGED slot,
         handler'[Turn].pc \notin InExecution \cup {"cancelling"} =>
           \/ handler[Turn].pc \notin InExecution \cup {"cancelling"}
           \/ up' /\ slot # 0 => ~proc[slot].running
  PROVE  SlotSound'
  BY DEF SlotSound, Grows

\* The records stay, and no registration gets one.
LEMMA RecordsKept ==
  ASSUME RunnerSound, Grows, HandlersSound, RecordsSound, UNCHANGED record,
         \A h \in Handlers : At(h, "recorded")' =>
           At(h, "recorded") /\ handler'[h].reg = handler[h].reg
  PROVE  RecordsSound'
  <1>1. record' \in [Ids -> Started' \cup {0}]
    BY DEF RecordsSound, Grows
  <1>2. \A p \in Started' : \A i \in Ids : record'[i] = p => proc'[p].id = i
    <2>1. record \in [Ids -> Started \cup {0}] /\ 0 \notin Procs
      BY ConstantsAssumption DEF RecordsSound, Procs
    <2>2. \A p \in Started' : p \in Started \/ p \in Procs
      BY DEF Grows
    <2>3. \A p \in Started' : \A i \in Ids : record'[i] = p => p \in Started
      BY <2>1, <2>2, StartedKnown
    <2> QED
      BY <2>3 DEF RecordsSound, Grows
  <1>3. ASSUME NEW h \in Handlers, At(h, "recorded")', proc'[handler'[h].reg].parent = 0
        PROVE  LET p == handler'[h].reg IN record'[p] = p \/ ~proc'[p].running
    <2>1. At(h, "recorded") /\ handler'[h].reg = handler[h].reg
      BY <1>3
    <2>2. handler[h].reg \in Started
      BY <2>1 DEF HandlersSound, HandlerFits, At
    <2> QED
      BY <1>3, <2>1, <2>2 DEF RecordsSound, Grows
  <1> QED
    BY <1>1, <1>2, <1>3 DEF RecordsSound, At

\* What a watcher knows stays true.
LEMMA WatchKept ==
  ASSUME RunnerSound, Grows, NEW p \in Procs, NEW w, WatchFits(p, w)
  PROVE  WatchFits(p, w)'
  <1>1. w \in Watcher
    BY DEF WatchFits
  <1>2. w \in Watcher'
    BY <1>1 DEF Grows
  <1>3. CASE p \notin Started
    <2>1. w.of = 0 /\ w.pc = "none" /\ w.mail = "none" /\ w = NoWatch
      BY <1>3 DEF WatchFits, NoWatch
    <2> QED
      BY <2>1, <1>2 DEF WatchFits
  <1>4. CASE p \in Started
    <2>1. w.of # 0 => w.of \in Started
      BY <1>1
    <2>2. Alone(p)' => Alone(p)
      BY <1>4 DEF Alone, Grows
    <2>3. p \in Started' /\ proc'[p].id = proc[p].id /\ (proc'[p].running => proc[p].running)
      BY <1>4 DEF Grows
    <2>4. w.of # 0 => proc'[w.of].id = proc[w.of].id /\ (proc'[w.of].running => proc[w.of].running)
      BY <2>1 DEF Grows
    <2> QED
      BY <1>2, <2>2, <2>3, <2>4 DEF WatchFits, Grows
  <1> QED
    BY <1>3, <1>4

\* At most one watcher moves.
LEMMA WatchMoves ==
  ASSUME RunnerSound, Grows, WatchesSound, NEW p \in Procs, NEW w,
         watch' = [watch EXCEPT ![p] = w], WatchFits(p, w)'
  PROVE  WatchesSound'
  <1>1. DOMAIN watch' = Procs /\ \A q \in Procs : watch'[q] = IF q = p THEN w ELSE watch[q]
    BY DEF WatchesSound
  <1>2. \A q \in Procs : WatchFits(q, watch[q])'
    <2> SUFFICES ASSUME NEW q \in Procs PROVE WatchFits(q, watch[q])'
      OBVIOUS
    <2>1. CASE q = p
      BY <2>1, <1>1
    <2>2. CASE q # p
      <3>1. PICK v : v = watch[q]
        OBVIOUS
      <3>2. WatchFits(q, v)
        BY <3>1 DEF WatchesSound
      <3>3. WatchFits(q, v)'
        BY <3>2, WatchKept
      <3> QED
        BY <3>1, <3>3, <2>2, <1>1
    <2> QED
      BY <2>1, <2>2
  <1> QED
    BY <1>1, <1>2 DEF WatchesSound

\* No watcher moves.
LEMMA WatchesKept ==
  ASSUME RunnerSound, Grows, WatchesSound, UNCHANGED watch
  PROVE  WatchesSound'
  <1>2. \A q \in Procs : WatchFits(q, watch[q])'
    <2> SUFFICES ASSUME NEW q \in Procs PROVE WatchFits(q, watch[q])'
      OBVIOUS
    <2>1. PICK v : v = watch[q]
      OBVIOUS
    <2>2. WatchFits(q, v)
      BY <2>1 DEF WatchesSound
    <2>3. WatchFits(q, v)'
      BY <2>2, WatchKept
    <2> QED
      BY <2>1, <2>3
  <1> QED
    BY <1>2 DEF WatchesSound

\* No watch fits any process and no subscription.
LEMMA NoWatchFits == ASSUME NEW p PROVE WatchFits(p, NoWatch)
  BY DEF WatchFits, NoWatch

\* A subscription is dropped.
LEMMA DropKept ==
  ASSUME RunnerSound, Grows, WatchesSound, NEW p \in Procs, DropWatch(p)
  PROVE  WatchesSound'
  <1>1. WatchFits(p, NoWatch)'
    BY DEF WatchFits, NoWatch
  <1> QED
    BY <1>1, WatchMoves DEF DropWatch

\* What is shown stays true: an id that is given again is not alone any more.
LEMMA ShownKept ==
  ASSUME RunnerSound, Grows, ShownSound, UNCHANGED shown
  PROVE  ShownSound'
  <1>1. \A i \in Ids : shown'[i] # "none" => Given(i)'
    BY DEF ShownSound, Given, Grows
  <1>2. ASSUME up', NEW p \in Started', Alone(p)', shown'[proc'[p].id] \in {"exited", "unavailable"}
        PROVE  ~proc'[p].running
    <2>1. CASE p \in Started
      <3>1. Alone(p)
        BY <1>2, <2>1 DEF Alone, Grows
      <3> QED
        BY <1>2, <2>1, <3>1 DEF ShownSound, Grows
    <2>2. CASE p \notin Started
      <3>1. proc'[p].id \in Ids => Given(proc'[p].id)
        BY <1>2 DEF ShownSound
      <3>2. proc'[p].id \in Ids => \E q \in Started : proc[q].id = proc'[p].id
        BY <3>1 DEF Given
      <3>3. proc'[p].id \in Ids => \E q \in Started' : proc'[q].id = proc'[p].id /\ q # p
        BY <3>2, <2>2 DEF Grows
      <3>4. proc'[p].id \notin Ids
        BY <3>3, <1>2 DEF Alone
      <3> QED
        BY <3>4, <2>2 DEF Grows
    <2> QED
      BY <2>1, <2>2
  <1> QED
    BY <1>1, <1>2 DEF ShownSound

\* No request is made or answered.
LEMMA RequestsKept ==
  ASSUME RunnerSound, Grows, RequestsCounted, Asked' = Asked, UNCHANGED <<orphans, doomed, unread>>
  PROVE  RequestsCounted'
  BY DEF RequestsCounted, Grows

\* Nobody takes or frees the lock.
LEMMA LockKept ==
  ASSUME LockSound, UNCHANGED <<alive, lock>>
  PROVE  LockSound'
  BY DEF LockSound

\* Whoever holds a process keeps it, and a process that starts is held.
LEMMA HeldKept ==
  ASSUME RunnerSound, Grows, ProcessesHeld,
         up' => \A p \in Started :
           proc'[p].running /\ proc[p].parent = 0 /\ Held(p) => Held(p)',
         \A p \in Started' \ Started : proc'[p].parent = 0 => Held(p)'
  PROVE  ProcessesHeld'
  BY DEF ProcessesHeld, Grows

-----------------------------------------------------------------------------
(* Steps of one kind.                                                      *)

\* The Runner moves alone, and starts nothing for the Controller.
LEMMA RunnerMoves ==
  ASSUME Tracked, RunnerSound', Grows, \A p \in Started' \ Started : proc'[p].parent # 0,
         UNCHANGED <<controller, watch, handler, slot, orphans, doomed, unread>>
  PROVE  Tracked'
  <1>0. UNCHANGED <<alive, record, shown, lock, watch, handler, slot, orphans, doomed, unread>>
    BY DEF controller
  <1> USE DEF Tracked
  <1>1. HandlersSound'
    BY <1>0, HandlersKept
  <1>2. SlotSound'
    BY <1>0, SlotKept
  <1>3. RecordsSound'
    BY <1>0, RecordsKept DEF At
  <1>4. WatchesSound' /\ ShownSound' /\ LockSound'
    BY <1>0, WatchesKept, ShownKept, LockKept
  <1>5. RequestsCounted'
    BY <1>0, RequestsKept DEF Asked, At
  <1>6. ProcessesHeld'
    BY <1>0, HeldKept DEF Held
  <1> QED
    BY <1>1, <1>2, <1>3, <1>4, <1>5, <1>6

\* One handler moves, and gets neither a request nor a record.
LEMMA HandlerMoves ==
  ASSUME Tracked, RunnerSound', Grows, WatchesSound', SlotSound',
         NEW h \in Handlers, NEW w, Set(h, w), HandlerFits(w)',
         h \in Users => UserFits(w) /\ slot' = slot, h = Turn => TurnFits(w)',
         w.pc \notin {"asked", "recorded"}, ~At(h, "asked"),
         UNCHANGED <<alive, record, shown, lock, orphans, doomed, unread>>, Started' = Started,
         up' => \A p \in Started :
           (/\ proc'[p].running /\ proc[p].parent = 0
            /\ handler[h].proc = p \/ (slot = p /\ slot' # slot)) => Held(p)'
  PROVE  Tracked'
  <1> USE DEF Tracked
  <1>1. HandlersSound'
    BY OneMoves
  <1>2. /\ DOMAIN handler' = Handlers
        /\ \A g \in Handlers : handler'[g] = IF g = h THEN w ELSE handler[g]
    BY DEF HandlersSound, Set
  <1>3. RecordsSound'
    BY <1>2, RecordsKept DEF At
  <1>4. ShownSound' /\ LockSound'
    BY ShownKept, LockKept
  <1>5. Asked' = Asked
    BY <1>2 DEF Asked, At
  <1>6. RequestsCounted'
    BY <1>5, RequestsKept
  <1>7. ProcessesHeld'
    <2>1. \A p \in Started : Held(p) /\ handler[h].proc # p /\ (slot = p => slot' = slot) => Held(p)'
      BY <1>2 DEF Held
    <2> QED
      BY <2>1, HeldKept
  <1> QED
    BY <1>1, <1>3, <1>4, <1>6, <1>7

-----------------------------------------------------------------------------
(* The steps of the Runner.                                                *)

\* Nothing happens.
LEMMA StutterTracked ==
  ASSUME Tracked, UNCHANGED vars
  PROVE  Tracked'
  <1>1. UNCHANGED runner /\ UNCHANGED <<controller, watch, handler, slot, orphans, doomed, unread>>
    BY DEF vars
  <1>2. RunnerSound' /\ Grows /\ Started' = Started
    BY <1>1, RunnerSame DEF Tracked
  <1> QED
    BY <1>1, <1>2, RunnerMoves

\* A command that spawns answers for what it spawned itself.
LEMMA SpawnTracked ==
  ASSUME Tracked, NEW p \in Started, NEW id \in Chosen, Spawn(p, id)
  PROVE  Tracked'
  <1>1. StartAs(id, p) /\ UNCHANGED <<controller, watch, handler, slot, orphans, doomed, unread>>
    BY DEF Spawn
  <1>2. RunnerSound /\ id \in Ids /\ p \in Started \cup {0} /\ p # 0
    BY StartedKnown, IdsKnown DEF Tracked
  <1>3. RunnerSound' /\ Grows /\ proc'[Latest + 1].parent = p /\ Started' = Started \cup {Latest + 1}
    BY <1>1, <1>2, StartRunner
  <1>4. \A q \in Started' \ Started : proc'[q].parent # 0
    BY <1>2, <1>3
  <1> QED
    BY <1>1, <1>3, <1>4, RunnerMoves

\* A command stops a process: it is held as before.
LEMMA StopInsideTracked ==
  ASSUME Tracked, NEW id \in Ids, StopInside(id)
  PROVE  Tracked'
  <1>1. up /\ StopAs(id) /\ UNCHANGED <<controller, watch, handler, slot, orphans, doomed, unread>>
    BY DEF StopInside
  <1>2. RunnerSound' /\ Grows /\ Started' = Started
    BY <1>1, StopRunner DEF Tracked
  <1> QED
    BY <1>1, <1>2, RunnerMoves

\* A process ends: it is held as before.
LEMMA ExitTracked ==
  ASSUME Tracked, NEW p \in Started, Exit(p)
  PROVE  Tracked'
  <1>1. UNCHANGED <<controller, watch, handler, slot, orphans, doomed, unread>>
    BY DEF Exit
  <1>2. RunnerSound' /\ Grows /\ Started' = Started
    BY ExitRunner DEF Tracked
  <1> QED
    BY <1>1, <1>2, RunnerMoves

\* The stop that nobody waits for ends what was held by it alone.
LEMMA StopDoomedTracked ==
  ASSUME Tracked, NEW id \in Ids, StopDoomed(id)
  PROVE  Tracked'
  <1>0. /\ up /\ StopAs(id) /\ doomed' = doomed \ {id}
        /\ UNCHANGED <<alive, record, shown, lock, watch, handler, slot, orphans, unread>>
    BY DEF StopDoomed, controller
  <1>r. /\ RunnerSound' /\ Grows /\ Started' = Started
        /\ \A p \in Started : proc[p].id = id => ~proc'[p].running
    BY <1>0, StopRunner DEF Tracked
  <1> USE DEF Tracked
  <1>1. HandlersSound'
    BY <1>0, <1>r, HandlersKept
  <1>2. SlotSound'
    BY <1>0, <1>r, SlotKept
  <1>3. RecordsSound'
    BY <1>0, <1>r, RecordsKept DEF At
  <1>4. WatchesSound' /\ ShownSound' /\ LockSound'
    BY <1>0, <1>r, WatchesKept, ShownKept, LockKept
  <1>5. RequestsCounted'
    BY <1>0, <1>r DEF RequestsCounted, Asked, At
  <1>6. ASSUME NEW p \in Started, proc'[p].running, proc[p].parent = 0, Held(p)
        PROVE  Held(p)'
    <2>1. proc[p].id = p
      BY <1>6 DEF RunnerSound
    <2>2. p # id
      BY <1>r, <1>6, <2>1
    <2> QED
      BY <1>0, <1>6, <2>2 DEF Held
  <1>7. ProcessesHeld'
    BY <1>r, <1>6, HeldKept
  <1> QED
    BY <1>r, <1>1, <1>2, <1>3, <1>4, <1>5, <1>7

-----------------------------------------------------------------------------
(* The steps of the watchers.                                              *)

\* A watcher moves alone.
LEMMA WatcherMoves ==
  ASSUME Tracked, UNCHANGED <<runner, alive, record, lock, handler, slot, orphans, doomed, unread>>,
         WatchesSound', ShownSound'
  PROVE  Tracked'
  <1> USE DEF Tracked
  <1>r. RunnerSound' /\ Grows /\ Started' = Started
    BY RunnerSame
  <1>1. HandlersSound'
    BY <1>r, HandlersKept
  <1>2. SlotSound'
    BY <1>r, SlotKept
  <1>3. RecordsSound'
    BY <1>r, RecordsKept DEF At
  <1>4. LockSound'
    BY LockKept
  <1>5. RequestsCounted'
    BY <1>r, RequestsKept DEF Asked, At
  <1>6. ProcessesHeld'
    BY <1>r, HeldKept DEF Held
  <1> QED
    BY <1>r, <1>1, <1>2, <1>3, <1>4, <1>5, <1>6

\* A process that is not found runs no more; one that is found is the
\* watcher's, if the id was given once.
LEMMA ResolveTracked ==
  ASSUME Tracked, NEW p \in Started, Resolve(p)
  PROVE  Tracked'
  <1> DEFINE of == managed[proc[p].id]
             w == IF of = 0 THEN [watch[p] EXCEPT !.pc = "end"]
                  ELSE [watch[p] EXCEPT !.of = of,
                                        !.pc = IF proc[of].running THEN "on" ELSE "end",
                                        !.mail = IF proc[of].running THEN "running" ELSE "exited"]
  <1> USE DEF Tracked
  <1>0. /\ up /\ watch[p].pc = "asked" /\ watch' = [watch EXCEPT ![p] = w]
        /\ UNCHANGED <<runner, alive, record, shown, lock, handler, slot, orphans, doomed, unread>>
    BY DEF Resolve, controller
  <1>r. RunnerSound' /\ Grows /\ Started' = Started /\ proc' = proc /\ up' = up
    BY <1>0, RunnerSame DEF runner
  <1>p. p \in Procs /\ proc[p].id \in Ids
    BY StartedKnown
  <1>1. of \in Started \cup {0} /\ (of # 0 => proc[of].id = proc[p].id)
    BY <1>p DEF RunnerSound
  <1>2. of # 0 => of \in Started /\ proc[of].running \in BOOLEAN
    BY <1>1, StartedKnown
  <1>3. of = 0 => ~proc[p].running
    BY <1>0, StartedKnown DEF RunnerSound
  <1>4. PICK v : v = watch[p]
    OBVIOUS
  <1>5. /\ v \in Watcher
        /\ v.of # 0 => proc[v.of].id = proc[p].id
        /\ v.mail = "exited" => v.of # 0 /\ ~proc[v.of].running
    BY <1>4, <1>p DEF WatchesSound, WatchFits
  <1>6. ASSUME of = 0 PROVE WatchesSound'
    <2>1. /\ w \in Watcher
          /\ w.of = v.of /\ w.mail = v.mail /\ w.pc = "end"
      BY <1>4, <1>5, <1>6
    <2>2. PICK x : x = w
      OBVIOUS
    <2>3. WatchFits(p, x)'
      BY <2>1, <2>2, <1>5, <1>3, <1>6, <1>r, StartedKnown DEF WatchFits
    <2> QED
      BY <2>2, <2>3, <1>0, <1>r, <1>p, WatchMoves
  <1>7. ASSUME of # 0 PROVE WatchesSound'
    <2>1. /\ w \in Watcher
          /\ w.of = of /\ (w.mail = "exited" => ~proc[of].running)
          /\ w.pc = IF proc[of].running THEN "on" ELSE "end"
      BY <1>2, <1>4, <1>5, <1>7
    <2>2. PICK x : x = w
      OBVIOUS
    <2>3. Alone(p) => of = p
      BY <1>1, <1>2, <1>7 DEF Alone
    <2>4. Alone(p)' = Alone(p)
      BY <1>r DEF Alone
    <2> HIDE DEF w, of
    <2>5. WatchFits(p, x)'
      BY <2>1, <2>2, <2>3, <2>4, <1>1, <1>2, <1>7, <1>r DEF WatchFits
    <2> QED
      BY <2>2, <2>5, <1>0, <1>r, <1>p, WatchMoves
  <1>8. WatchesSound'
    BY <1>6, <1>7
  <1>9. ShownSound'
    BY <1>0, <1>r, ShownKept
  <1> QED
    BY <1>0, <1>8, <1>9, WatcherMoves

\* The exit is sent of a process that ended, which is the watcher's if it has its
\* id alone.
LEMMA SendExitTracked ==
  ASSUME Tracked, NEW p \in Started, SendExit(p)
  PROVE  Tracked'
  <1> USE DEF Tracked
  <1>0. /\ watch[p].pc = "on" /\ ~Running(watch[p].of)
        /\ watch' = [watch EXCEPT ![p] = [watch[p] EXCEPT !.pc = "end", !.mail = "exited"]]
        /\ UNCHANGED <<runner, alive, record, shown, lock, handler, slot, orphans, doomed, unread>>
    BY StartedKnown DEF SendExit, controller, WatchesSound
  <1>r. RunnerSound' /\ Grows /\ Started' = Started /\ proc' = proc
    BY <1>0, RunnerSame DEF runner
  <1>p. p \in Procs
    BY StartedKnown
  <1>4. PICK v : v = watch[p]
    OBVIOUS
  <1>5. /\ v \in Watcher
        /\ v.of \in Started /\ proc[v.of].id = proc[p].id /\ ~proc[v.of].running
    BY <1>0, <1>4, <1>p DEF WatchesSound, WatchFits, Running
  <1>6. PICK x : x = [v EXCEPT !.pc = "end", !.mail = "exited"]
    OBVIOUS
  <1>7. /\ x \in Watcher
        /\ x.of = v.of /\ x.pc = "end" /\ x.mail = "exited"
    BY <1>5, <1>6
  <1>8. Alone(p)' => v.of = p
    BY <1>5, <1>r DEF Alone
  <1>9. v.of # 0
    BY <1>5, StartedKnown
  <1>10. WatchFits(p, x)'
    BY <1>5, <1>7, <1>8, <1>9, <1>r DEF WatchFits
  <1>11. WatchesSound'
    BY <1>0, <1>r, <1>p, <1>4, <1>6, <1>10, WatchMoves
  <1>12. ShownSound'
    BY <1>0, <1>r, ShownKept
  <1> QED
    BY <1>0, <1>11, <1>12, WatcherMoves

\* What the watcher hears of a process that was given its id alone is of that
\* process: it ended, or it was not found.
LEMMA HearTracked ==
  ASSUME Tracked, NEW p \in Started, HearState(p)
  PROVE  Tracked'
  <1> DEFINE id == proc[p].id
             status == IF watch[p].mail = "none" THEN "unavailable" ELSE watch[p].mail
  <1> USE DEF Tracked
  <1>0. /\ watch[p].mail # "none" \/ watch[p].pc = "end"
        /\ shown' \in IF Refused(id, status) THEN {shown}
                      ELSE {[shown EXCEPT ![id] = s] : s \in Shown(id, status)}
        /\ watch' = [watch EXCEPT ![p].mail = "none",
                                  ![p].live = ~Refused(id, status) /\ status = "running"]
        /\ UNCHANGED <<runner, alive, record, lock, handler, slot, orphans, doomed, unread>>
    BY DEF HearState
  <1>r. RunnerSound' /\ Grows /\ Started' = Started /\ proc' = proc /\ up' = up
    BY <1>0, RunnerSame DEF runner
  <1>p. p \in Procs /\ id \in Ids
    BY StartedKnown
  <1>4. PICK v : v = watch[p]
    OBVIOUS
  <1>5. /\ v \in Watcher
        /\ v.of # 0 => proc[v.of].id = proc[p].id
        /\ v.pc = "on" => v.of # 0
        /\ v.mail = "exited" => v.of \in Started /\ ~proc[v.of].running
        /\ (up /\ v.pc = "end" /\ Alone(p)) => ~proc[p].running
    BY <1>4, <1>p DEF WatchesSound, WatchFits
  <1>6. WatchesSound'
    <2>1. PICK b \in BOOLEAN : b <=> (~Refused(id, status) /\ status = "running")
      OBVIOUS
    <2>2. PICK x : x = [v EXCEPT !.mail = "none", !.live = b]
      OBVIOUS
    <2>3. watch' = [watch EXCEPT ![p] = x]
      <3>1. b = (~Refused(id, status) /\ status = "running")
        BY <2>1
      <3> QED
        BY <1>0, <1>4, <2>2, <3>1
    <2>4. /\ x \in Watcher
          /\ x.of = v.of /\ x.pc = v.pc /\ x.mail = "none"
      BY <1>5, <2>2
    <2>5. Alone(p)' = Alone(p)
      BY <1>r DEF Alone
    <2>6. WatchFits(p, x)'
      BY <1>5, <2>4, <2>5, <1>r DEF WatchFits
    <2> QED
      BY <2>3, <2>6, <1>r, <1>p, WatchMoves
  <1>7. CASE UNCHANGED shown
    <2>1. ShownSound'
      BY <1>7, <1>r, ShownKept
    <2> QED
      BY <1>0, <1>6, <2>1, WatcherMoves
  <1>8. ASSUME ~Refused(id, status), NEW s \in Shown(id, status), shown' = [shown EXCEPT ![id] = s]
        PROVE  Tracked'
    <2>1. s \in {"running", "overflowed", "exited", "unavailable"}
          /\ (s \in {"exited", "unavailable"} => s = status)
      BY <1>4, <1>5, <1>8 DEF Shown
    <2>2. s = "exited" => v.mail = "exited"
      BY <1>4, <2>1
    <2>3. s = "unavailable" => v.mail = "none" /\ v.pc = "end"
      BY <1>0, <1>4, <1>5, <2>1
    <2>4. ASSUME up, s \in {"exited", "unavailable"}, Alone(p)
          PROVE  ~proc[p].running
      <3>1. CASE s = "exited"
        <4>1. v.of \in Started /\ ~proc[v.of].running
          BY <1>5, <2>2, <3>1
        <4>2. v.of # 0
          BY <4>1, StartedKnown
        <4>3. v.of = p
          BY <4>1, <4>2, <1>5, <2>4 DEF Alone
        <4> QED
          BY <4>1, <4>3
      <3>2. CASE s = "unavailable"
        BY <1>5, <2>3, <2>4, <3>2
      <3> QED
        BY <2>4, <3>1, <3>2
    <2>5. shown \in [Ids -> {"none", "running", "overflowed", "exited", "unavailable"}]
      BY DEF ShownSound
    <2>6. /\ shown' \in [Ids -> {"none", "running", "overflowed", "exited", "unavailable"}]
          /\ \A i \in Ids : shown'[i] = IF i = id THEN s ELSE shown[i]
      BY <1>8, <2>1, <2>5
    <2>7. \A i \in Ids : shown'[i] # "none" => Given(i)'
      <3>1. Given(id)
        BY DEF Given
      <3>2. \A i : Given(i)' = Given(i)
        BY <1>r DEF Given
      <3> QED
        BY <2>6, <3>1, <3>2 DEF ShownSound
    <2>8. ASSUME up, NEW q \in Started, Alone(q), shown'[proc[q].id] \in {"exited", "unavailable"}
          PROVE  ~proc[q].running
      <3>1. CASE proc[q].id = id
        <4>1. q = p
          BY <2>8, <3>1 DEF Alone
        <4> QED
          BY <4>1, <2>4, <2>6, <2>8, <1>p
      <3>2. CASE proc[q].id # id
        BY <2>6, <2>8, <3>2, StartedKnown DEF ShownSound
      <3> QED
        BY <3>1, <3>2
    <2>9. ShownSound'
      BY <2>6, <2>7, <2>8, <1>r DEF ShownSound, Alone
    <2> QED
      BY <1>0, <1>6, <2>9, WatcherMoves
  <1> QED
    BY <1>0, <1>7, <1>8

-----------------------------------------------------------------------------
(* The steps of the turn and of the clients.                               *)

\* What a handler that is somewhere knows.
LEMMA HandlerKnown ==
  ASSUME Tracked, NEW h \in Handlers
  PROVE  /\ HandlerFits(handler[h])
         /\ h \in Users => UserFits(handler[h])
         /\ h = Turn => TurnFits(handler[h])
         /\ h \in Users <=> h # Turn
  BY ConstantsAssumption DEF Tracked, HandlersSound, Handlers

\* A handler that goes on, or back, keeps the rest of its state.
LEMMA GoesTo ==
  ASSUME Tracked, NEW h \in Handlers, NEW pc, Goto(h, pc)
  PROVE  /\ Set(h, [handler[h] EXCEPT !.pc = pc])
         /\ [handler[h] EXCEPT !.pc = pc].pc = pc
         /\ [handler[h] EXCEPT !.pc = pc].proc = handler[h].proc
         /\ [handler[h] EXCEPT !.pc = pc].reg = handler[h].reg
         /\ [handler[h] EXCEPT !.pc = pc].then = handler[h].then
         /\ [handler[h] EXCEPT !.pc = pc].id = handler[h].id
         /\ [handler[h] EXCEPT !.pc = pc].todo = handler[h].todo
  <1>1. handler[h] \in
         Handling
    BY HandlerKnown DEF HandlerFits
  <1>2. Set(h, [handler[h] EXCEPT !.pc = pc])
    BY <1>1 DEF Goto, Set, Tracked, HandlersSound
  <1> QED
    BY <1>1, <1>2

\* Nothing is under way.
LEMMA IdleFits ==
  ASSUME Tracked
  PROVE  /\ HandlerFits(Idle) /\ HandlerFits(Idle)' /\ UserFits(Idle) /\ TurnFits(Idle) /\ TurnFits(Idle)'
         /\ Idle.pc = "idle" /\ Idle.proc = 0
  <1>1. Idle \in [pc : {"idle", "asked", "answered", "waiting", "registering", "locking", "recorded",
                        "cancelling", "unwinding", "stop", "remove"},
                  proc : {0}, todo : {{}}, reg : {0}, then : {"none", "wait", "detach", "end"}, id : {0}]
    BY DEF Idle
  <1>2. Idle.pc = "idle" /\ Idle.proc = 0
    BY DEF Idle
  <1>3. ASSUME NEW S
        PROVE  Idle \in [pc : {"idle", "asked", "answered", "waiting", "registering", "locking",
                               "recorded", "cancelling", "unwinding", "stop", "remove"},
                         proc : S \cup {0}, todo : SUBSET S, reg : S \cup {0},
                         then : {"none", "wait", "detach", "end"}, id : Ids \cup {0}]
    BY DEF Idle
  <1>4. HandlerFits(Idle) /\ HandlerFits(Idle)'
    BY <1>2, <1>3 DEF HandlerFits
  <1> QED
    BY <1>2, <1>4 DEF UserFits, TurnFits, InExecution

\* A handler at another place: its process is the same.
LEMMA PlaceFits ==
  ASSUME NEW v, HandlerFits(v),
         NEW pc \in {"idle", "asked", "answered", "waiting", "registering", "locking",
                     "recorded", "cancelling", "unwinding"},
         v.proc = 0 <=> pc \in {"idle", "asked", "cancelling"},
         pc \in {"locking", "recorded"} => v.reg # 0
  PROVE  HandlerFits([v EXCEPT !.pc = pc])
  <1> DEFINE w == [v EXCEPT !.pc = pc]
  <1>1. v \in Handling
    BY DEF HandlerFits
  <1>2. /\ w \in Handling
        /\ w.pc = pc /\ w.proc = v.proc /\ w.reg = v.reg
    BY <1>1
  <1> HIDE DEF w
  <1>3. HandlerFits(w)
    BY <1>2 DEF HandlerFits
  <1> QED
    BY <1>3 DEF w

\* The handlers are finite in number, and so are the requests.
LEMMA AskedFinite == IsFiniteSet(Asked) /\ Cardinality(Asked) \in Nat
  <1>1. IsFiniteSet(Handlers)
    BY ConstantsAssumption, FS_AddElement DEF Handlers
  <1>2. Asked \in SUBSET Handlers
    BY DEF Asked
  <1> QED
    BY <1>1, <1>2, FS_Subset, FS_CardinalityType

\* The bound of the requests.
LEMMA ExecTracked ==
  ASSUME Tracked, NEW h \in Handlers, Exec(h)
  PROVE  Tracked'
  <1>0. /\ At(h, "idle") /\ Goto(h, "asked") /\ orphans + Cardinality(Asked) + Latest < MaxProcs
        /\ UNCHANGED <<runner, alive, record, shown, lock, watch, slot, orphans, doomed, unread>>
    BY DEF Exec, controller, Asked
  <1> USE DEF Tracked
  <1>r. RunnerSound' /\ Grows /\ Started' = Started /\ up' = up /\ proc' = proc
    BY <1>0, RunnerSame DEF runner
  <1>1. PICK v : v = handler[h]
    OBVIOUS
  <1>2. PICK w : w = [v EXCEPT !.pc = "asked"]
    OBVIOUS
  <1>3. Set(h, w) /\ w.pc = "asked" /\ w.proc = v.proc
    BY <1>0, <1>1, <1>2, GoesTo
  <1>4. HandlerFits(v) /\ v.pc = "idle" /\ v.proc = 0
    BY <1>0, <1>1, HandlerKnown DEF At, HandlerFits
  <1>5. HandlerFits(w)'
    BY <1>2, <1>4, <1>r, PlaceFits, HandlerKept
  <1>6. UserFits(w) /\ TurnFits(w)'
    BY <1>3 DEF UserFits, TurnFits, InExecution
  <1>7. HandlersSound'
    BY <1>0, <1>3, <1>5, <1>6, <1>r, OneMoves
  <1>8. /\ DOMAIN handler' = Handlers
        /\ \A g \in Handlers : handler'[g] = IF g = h THEN w ELSE handler[g]
    BY <1>3 DEF HandlersSound, Set
  <1>9. SlotSound'
    BY <1>0, <1>1, <1>4, <1>8, <1>r, SlotKept, TurnIsHandler DEF InExecution
  <1>10. RecordsSound'
    BY <1>0, <1>3, <1>8, <1>r, RecordsKept DEF At
  <1>11. WatchesSound' /\ ShownSound' /\ LockSound'
    BY <1>0, <1>r, WatchesKept, ShownKept, LockKept
  <1>12. RequestsCounted'
    <2>1. Asked' = Asked \cup {h} /\ h \notin Asked
      BY <1>0, <1>3, <1>8 DEF Asked, At
    <2>2. Cardinality(Asked') = Cardinality(Asked) + 1
      BY <2>1, AskedFinite, FS_AddElement
    <2>3. orphans + Cardinality(Asked) + 1 <= MaxProcs
      BY <1>0, AskedFinite, ConstantsAssumption DEF RequestsCounted, RunnerSound
    <2> QED
      BY <2>2, <2>3, <1>0, <1>r, AskedFinite DEF RequestsCounted
  <1>13. ProcessesHeld'
    <2>1. \A p \in Started : Held(p) => Held(p)'
      BY <1>0, <1>1, <1>3, <1>8 DEF Held
    <2> QED
      BY <2>1, <1>r, HeldKept
  <1> QED
    BY <1>r, <1>7, <1>9, <1>10, <1>11, <1>12, <1>13

\* The handler that asked holds the process started.
LEMMA AnswerStartTracked ==
  ASSUME Tracked, NEW h \in Handlers, AnswerStart(h)
  PROVE  Tracked'
  <1> DEFINE n == Latest + 1
  <1>0. /\ At(h, "asked") /\ StartAs(n, 0)
        /\ Set(h, [Idle EXCEPT !.pc = "answered", !.proc = n])
        /\ UNCHANGED <<alive, record, shown, lock, watch, slot, orphans, doomed, unread>>
    BY DEF AnswerStart, controller
  <1> USE DEF Tracked
  <1>n. n \in Ids /\ n \in Nat \ {0}
    BY <1>0, IdsKnown, ConstantsAssumption DEF StartAs, RunnerSound, Procs
  <1>r. /\ RunnerSound' /\ Grows /\ Started' = Started \cup {n} /\ n \notin Started
        /\ proc'[n].parent = 0
    BY <1>0, <1>n, StartRunner
  <1>2. PICK w : w = [Idle EXCEPT !.pc = "answered", !.proc = n]
    OBVIOUS
  <1>3. /\ w \in Handling'
        /\ w.pc = "answered" /\ w.proc = n
    BY <1>2, <1>r DEF Idle
  <1>5. HandlerFits(w)'
    BY <1>3, <1>n, <1>r DEF HandlerFits
  <1>6. UserFits(w) /\ TurnFits(w)'
    BY <1>3 DEF UserFits, TurnFits, InExecution
  <1>7. HandlersSound'
    BY <1>0, <1>2, <1>5, <1>6, <1>r, OneMoves
  <1>8. /\ DOMAIN handler' = Handlers
        /\ \A g \in Handlers : handler'[g] = IF g = h THEN w ELSE handler[g]
    BY <1>0, <1>2 DEF HandlersSound, Set
  <1>9. SlotSound'
    BY <1>0, <1>8, <1>r, SlotKept, TurnIsHandler DEF InExecution, At
  <1>10. RecordsSound'
    BY <1>0, <1>3, <1>8, <1>r, RecordsKept DEF At
  <1>11. WatchesSound' /\ ShownSound' /\ LockSound'
    BY <1>0, <1>r, WatchesKept, ShownKept, LockKept
  <1>12. RequestsCounted'
    <2>1. Asked' = Asked \ {h} /\ h \in Asked
      BY <1>0, <1>3, <1>8 DEF Asked, At
    <2>2. Cardinality(Asked') = Cardinality(Asked) - 1
      BY <2>1, AskedFinite, FS_RemoveElement
    <2>3. Cardinality(Asked') <= Cardinality(Asked) /\ Cardinality(Asked') \in Int
      BY <2>2, AskedFinite
    <2>4. unread' \subseteq Started'
      BY <1>0, <1>r DEF RequestsCounted
    <2> QED
      BY <2>3, <2>4, <1>0, <1>r, AskedFinite, ConstantsAssumption DEF RequestsCounted
  <1>13. ProcessesHeld'
    <2>1. \A p \in Started : Held(p) => Held(p)'
      <3>1. handler[h].proc = 0
        BY <1>0, HandlerKnown DEF At, HandlerFits
      <3>2. \A p \in Started : p # 0
        BY StartedKnown
      <3> QED
        BY <1>0, <3>1, <3>2, <1>8 DEF Held
    <2>2. PICK m : m = n
      OBVIOUS
    <2>3. Held(m)'
      BY <2>2, <1>3, <1>8 DEF Held
    <2> QED
      BY <2>1, <2>2, <2>3, <1>r, HeldKept
  <1> QED
    BY <1>r, <1>7, <1>9, <1>10, <1>11, <1>12, <1>13

\* A stop for the process that nobody waits for is on its way.
LEMMA AbandonedTracked ==
  ASSUME Tracked, AnswerAbandonedStart
  PROVE  Tracked'
  <1> DEFINE n == Latest + 1
  <1>0. /\ orphans > 0 /\ StartAs(n, 0) /\ orphans' = orphans - 1 /\ doomed' = doomed \cup {n}
        /\ UNCHANGED <<alive, record, shown, lock, watch, handler, slot, unread>>
    BY DEF AnswerAbandonedStart, controller
  <1> USE DEF Tracked
  <1>n. n \in Ids /\ n \in Nat \ {0}
    BY <1>0, IdsKnown, ConstantsAssumption DEF StartAs, RunnerSound, Procs
  <1>r. /\ RunnerSound' /\ Grows /\ Started' = Started \cup {n} /\ n \notin Started
    BY <1>0, <1>n, StartRunner
  <1>1. HandlersSound'
    BY <1>0, <1>r, HandlersKept
  <1>2. SlotSound'
    BY <1>0, <1>r, SlotKept
  <1>3. RecordsSound'
    BY <1>0, <1>r, RecordsKept DEF At
  <1>4. WatchesSound' /\ ShownSound' /\ LockSound'
    BY <1>0, <1>r, WatchesKept, ShownKept, LockKept
  <1>5. RequestsCounted'
    <2>1. Asked' = Asked
      BY <1>0 DEF Asked, At
    <2>2. orphans \in Nat /\ orphans' \in Nat /\ orphans' <= orphans
      BY <1>0 DEF RequestsCounted
    <2>3. orphans' + Cardinality(Asked) <= MaxProcs
      BY <2>2, AskedFinite, ConstantsAssumption DEF RequestsCounted
    <2>4. doomed' \subseteq Ids /\ unread' \subseteq Started'
      BY <1>0, <1>n, <1>r DEF RequestsCounted
    <2> QED
      BY <2>1, <2>2, <2>3, <2>4 DEF RequestsCounted
  <1>6. ProcessesHeld'
    <2>1. \A p \in Started : Held(p) => Held(p)'
      BY <1>0 DEF Held
    <2>2. PICK m : m = n
      OBVIOUS
    <2>3. Held(m)'
      BY <2>2, <1>0 DEF Held
    <2> QED
      BY <2>1, <2>2, <2>3, <1>r, HeldKept
  <1> QED
    BY <1>r, <1>1, <1>2, <1>3, <1>4, <1>5, <1>6

\* The slot is free for the process, for what it still holds ended.
LEMMA HoldTracked ==
  ASSUME Tracked, Hold
  PROVE  Tracked'
  <1>0. /\ At(Turn, "answered") /\ slot' = handler[Turn].proc /\ Goto(Turn, "waiting")
        /\ UNCHANGED runner /\ UNCHANGED watch
        /\ UNCHANGED <<alive, record, shown, lock, orphans, doomed, unread>>
    BY DEF Hold, controller
  <1>t. Turn \in Handlers /\ Turn \notin Users
    BY TurnIsHandler, ConstantsAssumption
  <1>r. RunnerSound' /\ Grows /\ Started' = Started /\ proc' = proc /\ up' = up
    BY <1>0, RunnerSame DEF runner, Tracked
  <1>1. PICK v : v = handler[Turn]
    OBVIOUS
  <1>2. PICK w : w = [v EXCEPT !.pc = "waiting"]
    OBVIOUS
  <1>3. Set(Turn, w) /\ w.pc = "waiting" /\ w.proc = v.proc
    BY <1>0, <1>1, <1>2, <1>t, GoesTo
  <1>4. HandlerFits(v) /\ v.pc = "answered"
    BY <1>0, <1>1, <1>t, HandlerKnown DEF At
  <1>5. v.proc \in Started /\ v.proc # 0 /\ proc[v.proc].parent = 0
    BY <1>4 DEF HandlerFits
  <1>6. HandlerFits(w)'
    BY <1>2, <1>4, <1>5, <1>r, PlaceFits, HandlerKept DEF Tracked
  <1>7. TurnFits(w)'
    BY <1>0, <1>1, <1>3 DEF TurnFits
  <1>8. handler'[Turn].pc = "waiting"
    BY <1>3, <1>t DEF Set, Tracked, HandlersSound
  <1>9. SlotSound'
    BY <1>0, <1>1, <1>5, <1>8, <1>r DEF SlotSound, InExecution
  <1>10. ASSUME up', NEW p \in Started, proc'[p].running,
                handler[Turn].proc = p \/ (slot = p /\ slot' # slot)
         PROVE  Held(p)'
    <2>1. CASE v.proc = p
      BY <2>1, <1>0, <1>1 DEF Held
    <2>2. CASE slot = p
      BY <2>2, <1>1, <1>4, <1>10, <1>r, StartedKnown DEF SlotSound, Tracked, InExecution
    <2> QED
      BY <1>1, <1>10, <2>1, <2>2
  <1>11. WatchesSound'
    BY <1>0, <1>r, WatchesKept DEF Tracked
  <1> QED
    BY <1>0, <1>t, <1>r, <1>1, <1>3, <1>4, <1>6, <1>7, <1>9, <1>10, <1>11, HandlerMoves DEF At

\* A wait that finds its process ended has no other round.
LEMMA AnswerWaitTracked ==
  ASSUME Tracked, AnswerWait
  PROVE  Tracked'
  <1>1. PICK v : v = handler[Turn]
    OBVIOUS
  <1>0. /\ v.pc = "waiting" /\ up /\ up' = up
        /\ proc' = [proc EXCEPT ![v.proc].news = {}]
        /\ UNCHANGED watch /\ UNCHANGED <<alive, record, shown, lock, slot, orphans, doomed, unread>>
    BY <1>1 DEF AnswerWait, controller, At
  <1>t. Turn \in Handlers /\ Turn \notin Users
    BY TurnIsHandler, ConstantsAssumption
  <1>2. PICK then \in IF Running(v.proc) THEN {"wait", "detach"} ELSE {"end"} :
          /\ Set(Turn, [v EXCEPT !.pc = "registering", !.then = then, !.todo = proc[v.proc].news])
          /\ managed' = IF then = "end" THEN [managed EXCEPT ![proc[v.proc].id] = 0] ELSE managed
    BY <1>1 DEF AnswerWait
  <1>4. HandlerFits(v) /\ TurnFits(v)
    BY <1>1, <1>t, HandlerKnown
  <1>5. v.proc \in Started /\ proc[v.proc].parent = 0 /\ v.proc # 0 /\ slot = v.proc
    BY <1>0, <1>4 DEF HandlerFits, TurnFits, InExecution
  <1>6. then = "end" => ~proc[v.proc].running
    BY <1>2, <1>5 DEF Running
  <1>r. RunnerSound' /\ Grows /\ Started' = Started
    BY <1>0, <1>2, <1>5, <1>6, WaitRunner DEF Tracked
  <1>7. PICK w : w = [v EXCEPT !.pc = "registering", !.then = then, !.todo = proc[v.proc].news]
    OBVIOUS
  <1>8. /\ w \in Handling
        /\ w.pc = "registering" /\ w.proc = v.proc /\ w.then = then
    <2>1. v \in Handling
      BY <1>4 DEF HandlerFits
    <2>2. proc[v.proc].news \in SUBSET Started
      BY <1>5, StartedKnown DEF Tracked
    <2>3. then \in {"none", "wait", "detach", "end"}
      BY <1>2
    <2> QED
      BY <2>1, <2>2, <2>3, <1>7
  <1>9. HandlerFits(w)
    BY <1>5, <1>8 DEF HandlerFits
  <1>10. HandlerFits(w)'
    BY <1>9, <1>r, HandlerKept DEF Tracked
  <1>11. TurnFits(w)'
    BY <1>0, <1>5, <1>6, <1>8, <1>r DEF TurnFits, Grows
  <1>12. handler'[Turn].pc = "registering"
    BY <1>2, <1>7, <1>8, <1>t DEF Set, Tracked, HandlersSound
  <1>13. SlotSound'
    BY <1>0, <1>12, <1>r, SlotKept DEF InExecution, Tracked
  <1>14. WatchesSound'
    BY <1>0, <1>r, WatchesKept DEF Tracked
  <1>15. \A p \in Started : v.proc = p => Held(p)'
    BY <1>0, <1>5 DEF Held
  <1> QED
    BY <1>0, <1>t, <1>r, <1>1, <1>2, <1>7, <1>8, <1>10, <1>11, <1>13, <1>14, <1>15, HandlerMoves DEF At

\* The execution fails because its process has no handle, so it runs no more, or
\* with the Runner.
LEMMA ExecFailsTracked ==
  ASSUME Tracked, ExecFails
  PROVE  Tracked'
  <1>1. PICK v : v = handler[Turn]
    OBVIOUS
  <1>0. /\ \/ v.pc = "waiting" /\ managed[proc[v.proc].id] = 0
           \/ v.pc \in {"waiting", "registering"} /\ ~up
        /\ Set(Turn, Idle) /\ UNCHANGED runner
        /\ UNCHANGED watch /\ UNCHANGED <<alive, record, shown, lock, slot, orphans, doomed, unread>>
    BY <1>1 DEF ExecFails, controller, At
  <1>t. Turn \in Handlers /\ Turn \notin Users
    BY TurnIsHandler, ConstantsAssumption
  <1>r. RunnerSound' /\ Grows /\ Started' = Started /\ proc' = proc /\ up' = up
    BY <1>0, RunnerSame DEF runner, Tracked
  <1>4. HandlerFits(v) /\ TurnFits(v)
    BY <1>1, <1>t, HandlerKnown
  <1>5. v.proc \in Started /\ slot = v.proc
    BY <1>0, <1>4 DEF HandlerFits, TurnFits, InExecution
  <1>6. up => ~proc[v.proc].running
    BY <1>0, <1>5, StartedKnown DEF Tracked, RunnerSound
  <1>13. SlotSound'
    BY <1>0, <1>5, <1>6, <1>r, SlotKept DEF Tracked
  <1>14. WatchesSound'
    BY <1>0, <1>r, WatchesKept DEF Tracked
  <1>15. \A p \in Started : v.proc = p => Held(p)'
    BY <1>0, <1>5 DEF Held
  <1>16. PICK w : w = Idle
    OBVIOUS
  <1>17. HandlerFits(w)' /\ TurnFits(w)' /\ w.pc = "idle"
    BY <1>16, IdleFits
  <1> QED
    BY <1>0, <1>t, <1>r, <1>1, <1>16, <1>17, <1>13, <1>14, <1>15, HandlerMoves DEF At

\* The slot is given up with a process that ended.
LEMMA RoundEndsTracked ==
  ASSUME Tracked, RoundEnds
  PROVE  Tracked'
  <1>1. PICK v : v = handler[Turn]
    OBVIOUS
  <1>0. /\ v.pc = "registering" /\ UNCHANGED runner
        /\ \/ Goto(Turn, "waiting") /\ UNCHANGED slot
           \/ v.then = "end" /\ Set(Turn, Idle) /\ slot' = 0
        /\ UNCHANGED watch /\ UNCHANGED <<alive, record, shown, lock, orphans, doomed, unread>>
    BY <1>1 DEF RoundEnds, controller, At
  <1>t. Turn \in Handlers /\ Turn \notin Users
    BY TurnIsHandler, ConstantsAssumption
  <1>r. RunnerSound' /\ Grows /\ Started' = Started /\ proc' = proc /\ up' = up
    BY <1>0, RunnerSame DEF runner, Tracked
  <1>4. HandlerFits(v) /\ TurnFits(v)
    BY <1>1, <1>t, HandlerKnown
  <1>5. v.proc \in Started /\ v.proc # 0 /\ slot = v.proc /\ (v.then = "end" => ~proc[v.proc].running)
    BY <1>0, <1>4 DEF HandlerFits, TurnFits, InExecution
  <1>14. WatchesSound'
    BY <1>0, <1>r, WatchesKept DEF Tracked
  <1>6. CASE Goto(Turn, "waiting") /\ UNCHANGED slot
    <2>2. PICK w : w = [v EXCEPT !.pc = "waiting"]
      OBVIOUS
    <2>3. Set(Turn, w) /\ w.pc = "waiting" /\ w.proc = v.proc
      BY <1>6, <1>1, <2>2, <1>t, GoesTo
    <2>4. HandlerFits(w)'
      BY <2>2, <1>4, <1>5, <1>r, PlaceFits, HandlerKept DEF Tracked
    <2>5. TurnFits(w)'
      BY <1>5, <1>6, <2>3 DEF TurnFits
    <2>6. handler'[Turn].pc = "waiting"
      BY <2>3, <1>t DEF Set, Tracked, HandlersSound
    <2>7. SlotSound'
      BY <1>6, <2>6, <1>r, SlotKept DEF InExecution, Tracked
    <2>8. \A p \in Started : v.proc = p => Held(p)'
      BY <1>6, <1>5 DEF Held
    <2> QED
      BY <1>0, <1>t, <1>r, <1>1, <1>6, <2>3, <2>4, <2>5, <2>7, <2>8, <1>14, HandlerMoves DEF At
  <1>7. CASE v.then = "end" /\ Set(Turn, Idle) /\ slot' = 0
    <2>1. PICK w : w = Idle
      OBVIOUS
    <2>2. HandlerFits(w)' /\ TurnFits(w)' /\ w.pc = "idle"
      BY <2>1, IdleFits
    <2>3. SlotSound'
      BY <1>7 DEF SlotSound
    <2>4. \A p \in Started : v.proc = p \/ slot = p => ~proc'[p].running
      BY <1>5, <1>7, <1>r
    <2> QED
      BY <1>0, <1>t, <1>r, <1>1, <1>7, <2>1, <2>2, <2>3, <2>4, <1>14, HandlerMoves DEF At
  <1> QED
    BY <1>0, <1>6, <1>7

\* A subscription is made for a process that was started.
LEMMA AskedWatchFits ==
  ASSUME NEW p \in Started', NEW w, w = [NoWatch EXCEPT !.pc = "asked"]
  PROVE  WatchFits(p, w)'
  <1>1. /\ w \in [pc : {"none", "asked", "on", "end"}, of : {0},
                  mail : {"none", "running", "exited"}, live : BOOLEAN]
        /\ w.pc = "asked" /\ w.of = 0 /\ w.mail = "none"
    BY DEF NoWatch
  <1>2. w \in Watcher'
    BY <1>1
  <1> QED
    BY <1>1, <1>2 DEF WatchFits

\* The handler keeps the process it registers.
LEMMA SubscribeTracked ==
  ASSUME Tracked, NEW h \in Handlers, NEW p \in Started, Subscribe(h, p),
         h \in Users => At(h, "answered") /\ p = handler[h].proc,
         h = Turn => At(h, "registering")
  PROVE  Tracked'
  <1>1. PICK v : v = handler[h]
    OBVIOUS
  <1>2. PICK w : w = [v EXCEPT !.pc = "locking", !.reg = p, !.todo = @ \ {p}]
    OBVIOUS
  <1>0. /\ Set(h, w) /\ watch' = [watch EXCEPT ![p] = [NoWatch EXCEPT !.pc = "asked"]]
        /\ UNCHANGED runner
        /\ UNCHANGED <<alive, record, shown, lock, slot, orphans, doomed, unread>>
    BY <1>1, <1>2 DEF Subscribe, controller
  <1>r. RunnerSound' /\ Grows /\ Started' = Started /\ proc' = proc /\ up' = up
    BY <1>0, RunnerSame DEF runner, Tracked
  <1>4. /\ HandlerFits(v) /\ (h \in Users <=> h # Turn) /\ (h = Turn => TurnFits(v))
        /\ v.pc = IF h = Turn THEN "registering" ELSE "answered"
    BY <1>1, HandlerKnown DEF At
  <1>5. v.proc \in Started /\ v.proc # 0 /\ proc[v.proc].parent = 0
    BY <1>4 DEF HandlerFits
  <1>6. /\ w \in Handling
        /\ w.pc = "locking" /\ w.proc = v.proc /\ w.reg = p /\ w.then = v.then
    <2>1. v \in Handling
      BY <1>4 DEF HandlerFits
    <2> QED
      BY <2>1, <1>2
  <1>7. HandlerFits(w)
    BY <1>5, <1>6, StartedKnown DEF HandlerFits, Tracked
  <1>8. HandlerFits(w)'
    BY <1>7, <1>r, HandlerKept DEF Tracked
  <1>9. h \in Users => UserFits(w)
    BY <1>1, <1>6 DEF UserFits
  <1>10. h = Turn => TurnFits(w)'
    BY <1>0, <1>4, <1>6, <1>r DEF TurnFits, InExecution
  <1>11. handler'[h].pc = "locking" /\ \A g \in Handlers : g # h => handler'[g] = handler[g]
    BY <1>0, <1>6 DEF Set, Tracked, HandlersSound
  <1>12. SlotSound'
    BY <1>0, <1>4, <1>11, <1>r, SlotKept, TurnIsHandler DEF InExecution, Tracked
  <1>13. WatchesSound'
    <2>1. PICK x : x = [NoWatch EXCEPT !.pc = "asked"]
      OBVIOUS
    <2>2. WatchFits(p, x)'
      BY <2>1, <1>r, AskedWatchFits
    <2> QED
      BY <2>1, <2>2, <1>0, <1>r, StartedKnown, WatchMoves DEF Tracked
  <1>14. \A q \in Started : v.proc = q => Held(q)'
    <2>1. handler'[h].proc = v.proc
      BY <1>0, <1>6 DEF Set, Tracked, HandlersSound
    <2> QED
      BY <2>1 DEF Held
  <1> QED
    BY <1>0, <1>r, <1>1, <1>4, <1>6, <1>8, <1>9, <1>10, <1>12, <1>13, <1>14, HandlerMoves DEF At

\* So does the turn, of a spawned process or of its own, ...
LEMMA SubscribeTurnTracked ==
  ASSUME Tracked, NEW p \in Started, SubscribeTurn(p)
  PROVE  Tracked'
  BY SubscribeTracked, TurnIsHandler, ConstantsAssumption DEF SubscribeTurn

\* ... and a client.
LEMMA SubscribeUserTracked ==
  ASSUME Tracked, NEW h \in Handlers, SubscribeUser(h)
  PROVE  Tracked'
  <1>1. h \in Users /\ At(h, "answered") /\ Subscribe(h, handler[h].proc)
    BY DEF SubscribeUser
  <1>2. handler[h].proc \in Started
    BY <1>1, HandlerKnown DEF HandlerFits, At
  <1> QED
    BY <1>1, <1>2, SubscribeTracked, ConstantsAssumption

\* An occupied id of the Controller's is recorded for the process itself.
LEMMA RegisterOccupiedTracked ==
  ASSUME Tracked, NEW h \in Handlers, RegisterOccupied(h)
  PROVE  Tracked'
  <1>1. PICK v : v = handler[h]
    OBVIOUS
  <1>0. /\ v.pc = "locking" /\ record[proc[v.reg].id] # 0 /\ DropWatch(v.reg)
        /\ IF h = Turn THEN Goto(h, "registering") ELSE Set(h, Idle)
        /\ UNCHANGED runner
        /\ UNCHANGED <<alive, record, shown, lock, slot, orphans, doomed, unread>>
    BY <1>1 DEF RegisterOccupied, controller, At
  <1>r. RunnerSound' /\ Grows /\ Started' = Started /\ proc' = proc /\ up' = up
    BY <1>0, RunnerSame DEF runner, Tracked
  <1>4. /\ HandlerFits(v) /\ (h \in Users <=> h # Turn) /\ (h = Turn => TurnFits(v))
        /\ (h # Turn => UserFits(v))
    BY <1>1, HandlerKnown
  <1>5. /\ v.proc \in Started /\ v.proc # 0 /\ v.reg \in Started /\ proc[v.proc].parent = 0
        /\ h # Turn => v.reg = v.proc
    BY <1>0, <1>4 DEF HandlerFits, UserFits
  <1>6. WatchesSound'
    BY <1>0, <1>5, <1>r, StartedKnown, DropKept DEF Tracked
  <1>7. CASE h = Turn
    <2>1. PICK w : w = [v EXCEPT !.pc = "registering"]
      OBVIOUS
    <2>2. /\ Set(h, w) /\ w.pc = "registering" /\ w.proc = v.proc /\ w.then = v.then
      BY <1>0, <1>1, <1>7, <2>1, GoesTo
    <2>3. HandlerFits(w)'
      BY <1>4, <1>5, <2>1, <1>r, PlaceFits, HandlerKept DEF Tracked
    <2>4. TurnFits(w)'
      BY <1>0, <1>4, <1>7, <2>2, <1>r DEF TurnFits, InExecution
    <2>5. handler'[h] = w
      BY <2>2 DEF Set, Tracked, HandlersSound
    <2>6. SlotSound'
      BY <1>0, <1>7, <2>2, <2>5, <1>r, SlotKept DEF InExecution, Tracked
    <2>7. \A q \in Started : v.proc = q => Held(q)'
      BY <2>2, <2>5 DEF Held
    <2> QED
      BY <1>0, <1>r, <1>1, <1>4, <1>6, <1>7, <2>2, <2>3, <2>4, <2>6, <2>7, HandlerMoves DEF At
  <1>8. CASE h # Turn
    <2>1. PICK w : w = Idle
      OBVIOUS
    <2>2. HandlerFits(w)' /\ UserFits(w) /\ w.pc = "idle"
      BY <2>1, IdleFits
    <2>3. \A g \in Handlers : g # h => handler'[g] = handler[g]
      BY <1>0, <1>8 DEF Set, Tracked, HandlersSound
    <2>4. SlotSound'
      BY <1>0, <1>8, <2>3, <1>r, SlotKept, TurnIsHandler DEF Tracked
    <2>5. record[v.proc] = v.proc
      <3>1. proc[v.proc].id = v.proc /\ v.proc \in Ids /\ v.reg = v.proc
        BY <1>5, <1>8, StartedKnown DEF Tracked, RunnerSound
      <3>2. record[v.proc] \in Started /\ proc[record[v.proc]].id = v.proc
        BY <3>1, <1>0 DEF Tracked, RecordsSound
      <3> QED
        BY <3>1, <3>2, <1>5, OwnId DEF Tracked
    <2>6. \A q \in Started : v.proc = q => Held(q)'
      BY <2>5, <1>0 DEF Held
    <2> QED
      BY <1>0, <1>r, <1>1, <1>4, <1>6, <1>8, <2>1, <2>2, <2>4, <2>6, HandlerMoves DEF At
  <1> QED
    BY <1>7, <1>8

\* A client that cannot register its process keeps it, to stop it.
LEMMA RegisterFailsTracked ==
  ASSUME Tracked, NEW h \in Handlers, RegisterFails(h)
  PROVE  Tracked'
  <1>1. PICK v : v = handler[h]
    OBVIOUS
  <1>0. /\ h \in Users
        /\ \/ v.pc = "locking" /\ DropWatch(v.reg)
           \/ v.pc = "answered" /\ UNCHANGED watch
        /\ Goto(h, "unwinding")
        /\ UNCHANGED runner
        /\ UNCHANGED <<alive, record, shown, lock, slot, orphans, doomed, unread>>
    BY <1>1 DEF RegisterFails, controller, At
  <1>r. RunnerSound' /\ Grows /\ Started' = Started /\ proc' = proc /\ up' = up
    BY <1>0, RunnerSame DEF runner, Tracked
  <1>4. HandlerFits(v) /\ h # Turn
    BY <1>0, <1>1, HandlerKnown
  <1>5. v.proc \in Started /\ v.proc # 0 /\ (v.pc = "locking" => v.reg \in Started)
    BY <1>0, <1>4 DEF HandlerFits
  <1>6. WatchesSound'
    <2>1. CASE v.pc = "locking" /\ DropWatch(v.reg)
      BY <2>1, <1>5, <1>r, StartedKnown, DropKept DEF Tracked
    <2>2. CASE UNCHANGED watch
      BY <2>2, <1>r, WatchesKept DEF Tracked
    <2> QED
      BY <1>0, <2>1, <2>2
  <1>7. PICK w : w = [v EXCEPT !.pc = "unwinding"]
    OBVIOUS
  <1>8. /\ Set(h, w) /\ w.pc = "unwinding" /\ w.proc = v.proc
    BY <1>0, <1>1, <1>7, GoesTo
  <1>9. HandlerFits(w)' /\ UserFits(w)
    BY <1>4, <1>5, <1>7, <1>8, <1>r, PlaceFits, HandlerKept DEF Tracked, UserFits
  <1>10. handler'[h] = w /\ \A g \in Handlers : g # h => handler'[g] = handler[g]
    BY <1>8 DEF Set, Tracked, HandlersSound
  <1>11. SlotSound'
    BY <1>0, <1>4, <1>10, <1>r, SlotKept, TurnIsHandler DEF Tracked
  <1>12. \A q \in Started : v.proc = q => Held(q)'
    BY <1>8, <1>10 DEF Held
  <1> QED
    BY <1>0, <1>r, <1>1, <1>4, <1>6, <1>8, <1>9, <1>11, <1>12, HandlerMoves DEF At

\* What could not be registered is stopped, before it is let go.
LEMMA StopUnregisteredTracked ==
  ASSUME Tracked, NEW h \in Handlers, StopUnregistered(h)
  PROVE  Tracked'
  <1>1. PICK v : v = handler[h]
    OBVIOUS
  <1>0. /\ v.pc = "unwinding" /\ Set(h, Idle)
        /\ IF up THEN StopAs(proc[v.proc].id) ELSE UNCHANGED runner
        /\ UNCHANGED watch
        /\ UNCHANGED <<alive, record, shown, lock, slot, orphans, doomed, unread>>
    BY <1>1 DEF StopUnregistered, controller, At
  <1>4. HandlerFits(v) /\ h # Turn /\ h \in Users
    BY <1>0, <1>1, HandlerKnown DEF TurnFits
  <1>5. v.proc \in Started /\ proc[v.proc].id \in Ids
    BY <1>0, <1>4, StartedKnown DEF HandlerFits, Tracked
  <1>r. RunnerSound' /\ Grows /\ Started' = Started /\ (up' => ~proc'[v.proc].running)
    <2>1. CASE up
      <3>1. PICK id \in Ids : id = proc[v.proc].id
        BY <1>5
      <3> QED
        BY <1>0, <1>5, <2>1, <3>1, StopRunner DEF Tracked
    <2>2. CASE ~up
      BY <1>0, <2>2, RunnerSame DEF Tracked, runner
    <2> QED
      BY <2>1, <2>2
  <1>6. WatchesSound'
    BY <1>0, <1>r, WatchesKept DEF Tracked
  <1>7. PICK w : w = Idle
    OBVIOUS
  <1>8. HandlerFits(w)' /\ UserFits(w) /\ w.pc = "idle"
    BY <1>7, IdleFits
  <1>10. \A g \in Handlers : g # h => handler'[g] = handler[g]
    BY <1>0 DEF Set, Tracked, HandlersSound
  <1>11. SlotSound'
    BY <1>0, <1>4, <1>10, <1>r, SlotKept, TurnIsHandler DEF Tracked
  <1> QED
    BY <1>0, <1>r, <1>1, <1>4, <1>6, <1>7, <1>8, <1>11, HandlerMoves DEF At

\* The cancelled execution's process is in the slot, and is stopped.
LEMMA StopSlotTracked ==
  ASSUME Tracked, StopSlot
  PROVE  Tracked'
  <1>1. PICK v : v = handler[Turn]
    OBVIOUS
  <1>0. /\ v.pc = "cancelling" /\ Set(Turn, Idle) /\ slot' = 0
        /\ IF slot # 0 /\ up THEN StopAs(proc[slot].id) ELSE UNCHANGED runner
        /\ UNCHANGED watch
        /\ UNCHANGED <<alive, record, shown, lock, orphans, doomed, unread>>
    BY <1>1 DEF StopSlot, controller, At
  <1>t. Turn \in Handlers /\ Turn \notin Users
    BY TurnIsHandler, ConstantsAssumption
  <1>4. HandlerFits(v) /\ v.proc = 0
    BY <1>0, <1>1, <1>t, HandlerKnown DEF HandlerFits
  <1>5. slot # 0 => slot \in Started /\ proc[slot].id \in Ids
    BY StartedKnown DEF Tracked, SlotSound
  <1>r. RunnerSound' /\ Grows /\ Started' = Started /\ (up' /\ slot # 0 => ~proc'[slot].running)
    <2>1. CASE slot # 0 /\ up
      <3>1. PICK id \in Ids : id = proc[slot].id
        BY <1>5, <2>1
      <3> QED
        BY <1>0, <1>5, <2>1, <3>1, StopRunner DEF Tracked
    <2>2. CASE ~(slot # 0 /\ up)
      BY <1>0, <2>2, RunnerSame DEF Tracked, runner
    <2> QED
      BY <2>1, <2>2
  <1>6. WatchesSound'
    BY <1>0, <1>r, WatchesKept DEF Tracked
  <1>7. PICK w : w = Idle
    OBVIOUS
  <1>8. HandlerFits(w)' /\ TurnFits(w)' /\ w.pc = "idle"
    BY <1>7, IdleFits
  <1>9. SlotSound'
    BY <1>0 DEF SlotSound
  <1>10. \A p \in Started : v.proc = p \/ slot = p => (up' => ~proc'[p].running)
    BY <1>4, <1>r, StartedKnown DEF Tracked
  <1> QED
    BY <1>0, <1>t, <1>r, <1>1, <1>6, <1>7, <1>8, <1>9, <1>10, HandlerMoves DEF At

\* What a client asks to stop is shown, so its id was given.
LEMMA BeginStopTracked ==
  ASSUME Tracked, NEW h \in Handlers, NEW id \in Ids, BeginStop(h, id)
  PROVE  Tracked'
  <1>1. PICK v : v = handler[h]
    OBVIOUS
  <1>2. PICK w : w = [Idle EXCEPT !.pc = "stop", !.id = id]
    OBVIOUS
  <1>0. /\ h \in Users /\ v.pc = "idle" /\ shown[id] # "none" /\ Set(h, w)
        /\ UNCHANGED runner /\ UNCHANGED watch
        /\ UNCHANGED <<alive, record, shown, lock, slot, orphans, doomed, unread>>
    BY <1>1, <1>2 DEF BeginStop, controller, At
  <1>r. RunnerSound' /\ Grows /\ Started' = Started /\ proc' = proc /\ up' = up
    BY <1>0, RunnerSame DEF runner, Tracked
  <1>4. HandlerFits(v) /\ h # Turn /\ v.proc = 0
    BY <1>0, <1>1, HandlerKnown DEF HandlerFits
  <1>5. /\ w \in Handling
        /\ w.pc = "stop" /\ w.proc = 0 /\ w.id = id
    BY <1>2 DEF Idle
  <1>6. Given(id)
    BY <1>0 DEF Tracked, ShownSound
  <1>7. HandlerFits(w)
    BY <1>5, <1>6 DEF HandlerFits
  <1>8. HandlerFits(w)' /\ UserFits(w)
    BY <1>5, <1>7, <1>r, HandlerKept DEF Tracked, UserFits
  <1>9. WatchesSound'
    BY <1>0, <1>r, WatchesKept DEF Tracked
  <1>10. \A g \in Handlers : g # h => handler'[g] = handler[g]
    BY <1>0 DEF Set, Tracked, HandlersSound
  <1>11. SlotSound'
    BY <1>0, <1>4, <1>10, <1>r, SlotKept, TurnIsHandler DEF Tracked
  <1>12. \A p \in Started : v.proc # p
    BY <1>4, StartedKnown DEF Tracked
  <1> QED
    BY <1>0, <1>r, <1>1, <1>4, <1>5, <1>8, <1>9, <1>11, <1>12, HandlerMoves DEF At

\* Whatever had the handle runs no more when its record is to go.
LEMMA StopForUserTracked ==
  ASSUME Tracked, NEW h \in Handlers, StopForUser(h)
  PROVE  Tracked'
  <1>1. PICK v : v = handler[h]
    OBVIOUS
  <1>0. /\ v.pc = "stop" /\ up
        /\ \/ StopAs(v.id) /\ Goto(h, "remove")
           \/ UNCHANGED runner /\ Set(h, Idle)
        /\ UNCHANGED watch
        /\ UNCHANGED <<alive, record, shown, lock, slot, orphans, doomed, unread>>
    BY <1>1 DEF StopForUser, controller, At
  <1>4. HandlerFits(v) /\ h # Turn /\ h \in Users
    BY <1>0, <1>1, HandlerKnown DEF TurnFits
  <1>5. v.proc = 0 /\ Given(v.id) /\ v.id \in Ids
    BY <1>0, <1>4, StartedKnown DEF HandlerFits, Given, Tracked
  <1>12. \A p \in Started : v.proc # p
    BY <1>5, StartedKnown DEF Tracked
  <1>6. CASE StopAs(v.id) /\ Goto(h, "remove")
    <2>r. /\ RunnerSound' /\ Grows /\ Started' = Started
          /\ \A p \in Started : proc[p].id = v.id => ~proc'[p].running
      BY <1>0, <1>5, <1>6, StopRunner DEF Tracked
    <2>1. PICK w : w = [v EXCEPT !.pc = "remove"]
      OBVIOUS
    <2>2. /\ Set(h, w) /\ w.pc = "remove" /\ w.proc = v.proc /\ w.id = v.id
      BY <1>1, <1>6, <2>1, GoesTo
    <2>3. w \in Handling
      <3>1. v \in Handling
        BY <1>4 DEF HandlerFits
      <3> QED
        BY <3>1, <2>1
    <2>4. \A p \in Started : proc'[p].parent = 0 /\ p = w.id => ~proc'[p].running
      BY <2>2, <2>r DEF Tracked, RunnerSound, Grows
    <2>5. Given(w.id)'
      BY <1>5, <2>2, <2>r DEF Given, Grows
    <2>6. HandlerFits(w)' /\ UserFits(w)
      BY <1>5, <2>2, <2>3, <2>4, <2>5, <2>r DEF HandlerFits, UserFits
    <2>7. WatchesSound'
      BY <1>0, <2>r, WatchesKept DEF Tracked
    <2>8. \A g \in Handlers : g # h => handler'[g] = handler[g]
      BY <2>2 DEF Set, Tracked, HandlersSound
    <2>9. SlotSound'
      BY <1>0, <1>4, <2>8, <2>r, SlotKept, TurnIsHandler DEF Tracked
    <2> QED
      BY <1>0, <2>r, <1>1, <1>4, <1>12, <2>2, <2>6, <2>7, <2>9, HandlerMoves DEF At
  <1>7. CASE UNCHANGED runner /\ Set(h, Idle)
    <2>r. RunnerSound' /\ Grows /\ Started' = Started
      BY <1>7, RunnerSame DEF Tracked
    <2>1. PICK w : w = Idle
      OBVIOUS
    <2>2. HandlerFits(w)' /\ UserFits(w) /\ w.pc = "idle"
      BY <2>1, IdleFits
    <2>7. WatchesSound'
      BY <1>0, <2>r, WatchesKept DEF Tracked
    <2>8. \A g \in Handlers : g # h => handler'[g] = handler[g]
      BY <1>7 DEF Set, Tracked, HandlersSound
    <2>9. SlotSound'
      BY <1>0, <1>4, <2>8, <2>r, SlotKept, TurnIsHandler DEF Tracked
    <2> QED
      BY <1>0, <1>7, <2>r, <1>1, <1>4, <1>12, <2>1, <2>2, <2>7, <2>9, HandlerMoves DEF At
  <1> QED
    BY <1>0, <1>6, <1>7

\* The lock is free, so no other registration is between its record and its view.
LEMMA RegisterTracked ==
  ASSUME DeletionInv, Tracked, NEW h \in Handlers, Register(h)
  PROVE  Tracked'
  <1>1. PICK v : v = handler[h]
    OBVIOUS
  <1>0. /\ v.pc = "locking" /\ lock = {} /\ record[proc[v.reg].id] = 0
        /\ record' = [record EXCEPT ![proc[v.reg].id] = v.reg]
        /\ lock' = {h} /\ Goto(h, "recorded") /\ UNCHANGED runner
        /\ UNCHANGED <<alive, shown, watch, slot, orphans, doomed, unread>>
    BY <1>1 DEF Register, At
  <1> USE DEF Tracked
  <1>r. RunnerSound' /\ Grows /\ Started' = Started /\ proc' = proc /\ up' = up
    BY <1>0, RunnerSame DEF runner
  <1>4. /\ HandlerFits(v) /\ (h \in Users => UserFits(v)) /\ (h = Turn => TurnFits(v))
        /\ (h \in Users <=> h # Turn)
    BY <1>1, HandlerKnown
  <1>5. v.proc \in Started /\ v.proc # 0 /\ v.reg \in Started /\ v.reg # 0
    BY <1>0, <1>4 DEF HandlerFits
  <1>6. PICK w : w = [v EXCEPT !.pc = "recorded"]
    OBVIOUS
  <1>7. Set(h, w) /\ w.pc = "recorded" /\ w.proc = v.proc /\ w.reg = v.reg /\ w.then = v.then
    BY <1>0, <1>1, <1>6, GoesTo
  <1>8. HandlerFits(w)'
    BY <1>4, <1>5, <1>6, <1>r, PlaceFits, HandlerKept
  <1>9. (h \in Users => UserFits(w)) /\ (h = Turn => TurnFits(w)')
    BY <1>0, <1>4, <1>7, <1>r DEF UserFits, TurnFits, InExecution
  <1>10. HandlersSound'
    BY <1>0, <1>4, <1>7, <1>8, <1>9, <1>r, OneMoves
  <1>11. /\ DOMAIN handler' = Handlers
         /\ \A g \in Handlers : handler'[g] = IF g = h THEN w ELSE handler[g]
    BY <1>7 DEF HandlersSound, Set
  <1>12. SlotSound'
    BY <1>0, <1>1, <1>7, <1>11, <1>r, SlotKept, TurnIsHandler DEF InExecution
  <1>13. WatchesSound' /\ ShownSound'
    BY <1>0, <1>r, WatchesKept, ShownKept
  <1>14. RequestsCounted'
    BY <1>0, <1>1, <1>7, <1>11, <1>r, RequestsKept DEF Asked, At
  <1>15. LockSound'
    BY <1>0 DEF LockSound
  <1>16. PICK i \in Ids : i = proc[v.reg].id
    BY <1>5, StartedKnown
  <1>17. /\ record' \in [Ids -> Started \cup {0}]
         /\ \A j \in Ids : record'[j] = IF j = i THEN v.reg ELSE record[j]
    BY <1>0, <1>5, <1>16 DEF RecordsSound
  <1>18. RecordsSound'
    <2>1. \A p \in Started : \A j \in Ids : record'[j] = p => proc[p].id = j
      BY <1>16, <1>17 DEF RecordsSound
    <2>2. \A g \in Handlers : At(g, "recorded")' => g = h
      BY <1>0, <1>11 DEF DeletionInv, RegistrationsLocked, At
    <2>3. proc[v.reg].parent = 0 => record'[v.reg] = v.reg
      BY <1>5, <1>16, <1>17 DEF RunnerSound
    <2>4. \A g \in Handlers : LET p == handler'[g].reg IN
            At(g, "recorded")' /\ proc'[p].parent = 0 => record'[p] = p \/ ~proc'[p].running
      BY <2>2, <2>3, <1>7, <1>11, <1>r
    <2> QED
      BY <1>17, <1>r, <2>1, <2>4 DEF RecordsSound, At
  <1>19. ProcessesHeld'
    <2>1. \A p \in Started : Held(p) => Held(p)'
      <3>1. \A p \in Started : record[p] = p => record'[p] = p
        BY <1>0, <1>16, <1>17, StartedKnown
      <3> QED
        BY <3>1, <1>0, <1>1, <1>7, <1>11 DEF Held
    <2> QED
      BY <2>1, <1>r, HeldKept
  <1> QED
    BY <1>r, <1>10, <1>12, <1>13, <1>14, <1>15, <1>18, <1>19

\* A registration that ends leaves its process with the record it has.
LEMMA ViewTracked ==
  ASSUME DeletionInv, Tracked, NEW h \in Handlers, View(h)
  PROVE  Tracked'
  <1>1. PICK v : v = handler[h]
    OBVIOUS
  <1>0. /\ v.pc = "recorded" /\ shown' = [shown EXCEPT ![proc[v.reg].id] = "running"]
        /\ watch' = [watch EXCEPT ![v.reg].live = TRUE] /\ lock' = {}
        /\ IF h = Turn /\ v.reg # v.proc
           THEN Goto(h, "registering") /\ UNCHANGED slot
           ELSE Set(h, Idle) /\ slot' = IF h = Turn THEN 0 ELSE slot
        /\ UNCHANGED runner /\ UNCHANGED <<alive, record, orphans, doomed, unread>>
    BY <1>1 DEF View, At
  <1> USE DEF Tracked
  <1>r. RunnerSound' /\ Grows /\ Started' = Started /\ proc' = proc /\ up' = up
    BY <1>0, RunnerSame DEF runner
  <1>4. /\ HandlerFits(v) /\ (h \in Users => UserFits(v)) /\ (h = Turn => TurnFits(v))
        /\ (h \in Users <=> h # Turn)
    BY <1>1, HandlerKnown
  <1>5. /\ v.proc \in Started /\ v.proc # 0 /\ v.reg \in Started /\ proc[v.proc].parent = 0
        /\ h # Turn => v.reg = v.proc
        /\ h = Turn => slot = v.proc
    BY <1>0, <1>4 DEF HandlerFits, UserFits, TurnFits, InExecution
  <1>6. PICK w : w = IF h = Turn /\ v.reg # v.proc THEN [v EXCEPT !.pc = "registering"] ELSE Idle
    OBVIOUS
  <1>7. /\ Set(h, w) /\ HandlerFits(w)' /\ (h \in Users => UserFits(w) /\ slot' = slot)
        /\ (h = Turn => TurnFits(w)') /\ w.pc \in {"registering", "idle"}
        /\ (h = Turn /\ w.pc = "idle" => slot' = 0) /\ (w.pc = "registering" => slot' = slot)
        /\ (w.pc = "registering" => w.proc = v.proc) /\ (w.pc = "idle" => v.reg = v.proc)
    <2>1. CASE h = Turn /\ v.reg # v.proc
      <3>1. w = [v EXCEPT !.pc = "registering"]
        BY <1>6, <2>1
      <3>2. Set(h, w) /\ w.pc = "registering" /\ w.proc = v.proc /\ w.then = v.then
        BY <1>0, <1>1, <2>1, <3>1, GoesTo
      <3>3. HandlerFits(w)'
        BY <1>4, <1>5, <3>1, <1>r, PlaceFits, HandlerKept
      <3>4. TurnFits(w)'
        BY <1>0, <1>4, <2>1, <3>2, <1>r DEF TurnFits, InExecution
      <3> QED
        BY <1>0, <1>4, <2>1, <3>2, <3>3, <3>4
    <2>2. CASE ~(h = Turn /\ v.reg # v.proc)
      <3>1. w = Idle
        BY <1>6, <2>2
      <3> QED
        BY <1>0, <1>4, <1>5, <2>2, <3>1, IdleFits
    <2> QED
      BY <2>1, <2>2
  <1>10. HandlersSound'
    BY <1>4, <1>7, <1>r, OneMoves
  <1>11. /\ DOMAIN handler' = Handlers
         /\ \A g \in Handlers : handler'[g] = IF g = h THEN w ELSE handler[g]
    BY <1>7 DEF HandlersSound, Set
  <1>12. SlotSound'
    <2>1. CASE h = Turn /\ w.pc = "idle"
      BY <1>7, <2>1 DEF SlotSound
    <2>2. CASE h = Turn /\ w.pc = "registering"
      BY <1>7, <1>11, <2>2, <1>r, SlotKept DEF InExecution
    <2>3. CASE h # Turn
      BY <1>4, <1>7, <1>11, <2>3, <1>r, SlotKept, TurnIsHandler
    <2> QED
      BY <1>7, <2>1, <2>2, <2>3
  <1>13. RecordsSound'
    BY <1>0, <1>7, <1>11, <1>r, RecordsKept DEF At
  <1>14. RequestsCounted'
    BY <1>0, <1>1, <1>7, <1>11, <1>r, RequestsKept DEF Asked, At
  <1>15. LockSound'
    BY <1>0 DEF LockSound
  <1>16. v.reg \in Procs /\ proc[v.reg].id \in Ids
    BY <1>5, StartedKnown
  <1>17. WatchesSound'
    <2>1. PICK z : z = watch[v.reg]
      OBVIOUS
    <2>2. PICK x : x = [z EXCEPT !.live = TRUE]
      OBVIOUS
    <2>3. /\ z \in Watcher
          /\ z.of # 0 => proc[z.of].id = proc[v.reg].id
          /\ z.pc = "on" => z.of # 0
          /\ z.mail = "exited" => z.of # 0 /\ ~proc[z.of].running
          /\ (up /\ z.pc = "end" /\ Alone(v.reg)) => ~proc[v.reg].running
      BY <1>16, <2>1 DEF WatchesSound, WatchFits
    <2>4. /\ x \in Watcher
          /\ x.of = z.of /\ x.pc = z.pc /\ x.mail = z.mail
      BY <2>2, <2>3
    <2>5. Alone(v.reg)' = Alone(v.reg)
      BY <1>r DEF Alone
    <2>6. WatchFits(v.reg, x)'
      BY <2>3, <2>4, <2>5, <1>r, <1>5 DEF WatchFits
    <2>7. watch' = [watch EXCEPT ![v.reg] = x]
      BY <1>0, <1>16, <2>1, <2>2 DEF WatchesSound
    <2> QED
      BY <2>6, <2>7, <1>r, <1>16, WatchMoves
  <1>18. ShownSound'
    <2>0. shown \in [Ids -> {"none", "running", "overflowed", "exited", "unavailable"}]
      BY DEF ShownSound
    <2>1. /\ shown' \in [Ids -> {"none", "running", "overflowed", "exited", "unavailable"}]
          /\ \A i \in Ids : shown'[i] = IF i = proc[v.reg].id THEN "running" ELSE shown[i]
      BY <1>0, <1>16, <2>0
    <2>2. \A i \in Ids : shown'[i] # "none" => Given(i)
      BY <2>1, <1>5 DEF ShownSound, Given
    <2>3. up => \A p \in Started :
            Alone(p) /\ shown'[proc[p].id] \in {"exited", "unavailable"} => ~proc[p].running
      BY <2>1, StartedKnown DEF ShownSound
    <2> QED
      BY <2>1, <2>2, <2>3, <1>r DEF ShownSound, Given, Alone
  <1>19. ProcessesHeld'
    <2>1. ASSUME NEW p \in Started, proc[p].running, proc[p].parent = 0, Held(p)
          PROVE  Held(p)'
      <3>1. CASE p = v.proc /\ w.pc = "registering"
        BY <3>1, <1>7, <1>11 DEF Held
      <3>2. CASE p = v.proc /\ w.pc = "idle"
        <4>1. At(h, "recorded") /\ handler[h].reg = p
          BY <1>0, <1>1, <1>7, <3>2 DEF At
        <4>2. record[p] = p
          BY <4>1, <2>1 DEF RecordsSound
        <4> QED
          BY <4>2, <1>0 DEF Held
      <3>3. CASE p # v.proc
        <4>1. slot = p => slot' = slot
          BY <1>4, <1>5, <1>7, <3>3
        <4> QED
          BY <4>1, <1>0, <1>1, <1>11, <2>1, <3>3 DEF Held
      <3> QED
        BY <1>7, <3>1, <3>2, <3>3
    <2> QED
      BY <2>1, <1>r, HeldKept
  <1> QED
    BY <1>r, <1>10, <1>12, <1>13, <1>14, <1>15, <1>17, <1>18, <1>19

\* The record that goes was of a process that was stopped, or of a chosen id.
LEMMA RemoveRecordTracked ==
  ASSUME Tracked, NEW h \in Handlers, RemoveRecord(h)
  PROVE  Tracked'
  <1>1. PICK v : v = handler[h]
    OBVIOUS
  <1>0. /\ v.pc = "remove" /\ record' = [record EXCEPT ![v.id] = 0] /\ Set(h, Idle)
        /\ UNCHANGED runner /\ UNCHANGED <<alive, shown, lock, watch, slot, orphans, doomed, unread>>
    BY <1>1 DEF RemoveRecord, At
  <1> USE DEF Tracked
  <1>r. RunnerSound' /\ Grows /\ Started' = Started /\ proc' = proc /\ up' = up
    BY <1>0, RunnerSame DEF runner
  <1>4. HandlerFits(v) /\ h # Turn /\ h \in Users
    BY <1>0, <1>1, HandlerKnown DEF TurnFits
  <1>5. v.proc = 0 /\ \A p \in Started : proc[p].parent = 0 /\ p = v.id => ~proc[p].running
    BY <1>0, <1>4 DEF HandlerFits
  <1>6. PICK w : w = Idle
    OBVIOUS
  <1>7. HandlerFits(w)' /\ UserFits(w) /\ w.pc = "idle" /\ w.proc = 0
    BY <1>6, IdleFits
  <1>10. HandlersSound'
    BY <1>0, <1>4, <1>6, <1>7, <1>r, OneMoves
  <1>11. /\ DOMAIN handler' = Handlers
         /\ \A g \in Handlers : handler'[g] = IF g = h THEN w ELSE handler[g]
    BY <1>0, <1>6 DEF HandlersSound, Set
  <1>12. SlotSound'
    BY <1>0, <1>4, <1>11, <1>r, SlotKept, TurnIsHandler
  <1>13. WatchesSound' /\ ShownSound' /\ LockSound'
    BY <1>0, <1>r, WatchesKept, ShownKept, LockKept
  <1>14. RequestsCounted'
    BY <1>0, <1>1, <1>7, <1>11, <1>r, RequestsKept DEF Asked, At
  <1>15. record \in [Ids -> Started \cup {0}]
    BY DEF RecordsSound
  <1>16. /\ record' \in [Ids -> Started \cup {0}]
         /\ \A i \in Ids : record'[i] = IF i = v.id THEN 0 ELSE record[i]
    BY <1>0, <1>15
  <1>17. \A p \in Started : record[p] = p /\ proc[p].parent = 0 => record'[p] = p \/ ~proc[p].running
    BY <1>5, <1>16, StartedKnown
  <1>18. RecordsSound'
    <2>1. \A p \in Started : \A i \in Ids : record'[i] = p => proc[p].id = i
      BY <1>16, StartedKnown DEF RecordsSound
    <2>2. ASSUME NEW g \in Handlers, At(g, "recorded")', proc[handler'[g].reg].parent = 0
          PROVE  LET p == handler'[g].reg IN record'[p] = p \/ ~proc[p].running
      <3>1. handler'[g] = handler[g] /\ At(g, "recorded")
        BY <2>2, <1>7, <1>11 DEF At
      <3>2. handler[g].reg \in Started
        BY <3>1, HandlerKnown DEF HandlerFits, At
      <3> QED
        BY <2>2, <3>1, <3>2, <1>17 DEF RecordsSound
    <2> QED
      BY <1>16, <1>r, <2>1, <2>2 DEF RecordsSound, At
  <1>19. ProcessesHeld'
    <2>1. ASSUME NEW p \in Started, proc[p].running, proc[p].parent = 0, Held(p)
          PROVE  Held(p)'
      <3>1. handler[h].proc # p
        BY <1>1, <1>5, StartedKnown
      <3> QED
        BY <2>1, <3>1, <1>0, <1>11, <1>17 DEF Held
    <2> QED
      BY <2>1, <1>r, HeldKept
  <1> QED
    BY <1>r, <1>10, <1>12, <1>13, <1>14, <1>18, <1>19

\* The future that is dropped leaves its process in the slot; the request nobody
\* waits for any more, with the reader; and the answer it did not read, nowhere.
LEMMA CancelTracked ==
  ASSUME Tracked, Cancel
  PROVE  Tracked'
  <1>1. PICK v : v = handler[Turn]
    OBVIOUS
  <1>2. PICK w : w = [Idle EXCEPT !.pc = "cancelling"]
    OBVIOUS
  <1>0. /\ v.pc \notin {"idle", "cancelling"}
        /\ orphans' = IF v.pc = "asked" THEN orphans + 1 ELSE orphans
        /\ unread' = IF v.pc = "answered" THEN unread \cup {v.proc} ELSE unread
        /\ watch' = IF v.pc \in {"locking", "recorded"} THEN [watch EXCEPT ![v.reg] = NoWatch] ELSE watch
        /\ lock' = lock \ {Turn} /\ Set(Turn, w)
        /\ UNCHANGED runner /\ UNCHANGED <<alive, record, shown, slot, doomed>>
    BY <1>1, <1>2 DEF Cancel
  <1>t. Turn \in Handlers /\ Turn \notin Users
    BY TurnIsHandler, ConstantsAssumption
  <1> USE DEF Tracked
  <1>r. RunnerSound' /\ Grows /\ Started' = Started /\ proc' = proc /\ up' = up
    BY <1>0, RunnerSame DEF runner
  <1>4. HandlerFits(v) /\ TurnFits(v)
    BY <1>1, <1>t, HandlerKnown
  <1>5. /\ w.pc = "cancelling" /\ w.proc = 0
        /\ w \in Handling'
    BY <1>2 DEF Idle
  <1>6. HandlerFits(w)' /\ TurnFits(w)'
    BY <1>5 DEF HandlerFits, TurnFits, InExecution
  <1>7. HandlersSound'
    BY <1>0, <1>t, <1>6, <1>r, OneMoves
  <1>11. /\ DOMAIN handler' = Handlers
         /\ \A g \in Handlers : handler'[g] = IF g = Turn THEN w ELSE handler[g]
    BY <1>0 DEF HandlersSound, Set
  <1>12. SlotSound'
    BY <1>0, <1>t, <1>5, <1>11, <1>r, SlotKept
  <1>13. RecordsSound'
    BY <1>0, <1>5, <1>11, <1>r, RecordsKept DEF At
  <1>14. WatchesSound'
    <2>1. CASE v.pc \in {"locking", "recorded"}
      <3>1. v.reg \in Procs
        BY <2>1, <1>4, StartedKnown DEF HandlerFits
      <3> QED
        BY <2>1, <3>1, <1>0, <1>r, DropKept DEF DropWatch
    <2>2. CASE v.pc \notin {"locking", "recorded"}
      BY <2>2, <1>0, <1>r, WatchesKept
    <2> QED
      BY <2>1, <2>2
  <1>15. ShownSound'
    BY <1>0, <1>r, ShownKept
  <1>16. LockSound'
    BY <1>0 DEF LockSound
  <1>17. unread' \subseteq Started /\ doomed' \subseteq Ids
    BY <1>0, <1>4 DEF RequestsCounted, HandlerFits
  <1>18. RequestsCounted'
    <2>1. CASE v.pc = "asked"
      <3>1. Asked' = Asked \ {Turn} /\ Turn \in Asked
        BY <2>1, <1>1, <1>t, <1>5, <1>11 DEF Asked, At
      <3>2. Cardinality(Asked') = Cardinality(Asked) - 1
        BY <3>1, AskedFinite, FS_RemoveElement
      <3>3. orphans \in Nat /\ orphans' = orphans + 1
        BY <2>1, <1>0 DEF RequestsCounted
      <3>4. orphans' + Cardinality(Asked') = orphans + Cardinality(Asked)
        BY <3>2, <3>3, AskedFinite
      <3> QED
        BY <3>3, <3>4, <1>r, <1>17 DEF RequestsCounted
    <2>2. CASE v.pc # "asked"
      <3>1. Asked' = Asked
        BY <2>2, <1>1, <1>t, <1>5, <1>11 DEF Asked, At
      <3>2. orphans' = orphans
        BY <2>2, <1>0
      <3> QED
        BY <3>1, <3>2, <1>r, <1>17 DEF RequestsCounted
    <2> QED
      BY <2>1, <2>2
  <1>19. ProcessesHeld'
    <2>1. ASSUME NEW p \in Started, Held(p)
          PROVE  Held(p)'
      <3>1. CASE v.proc = p
        <4>1. v.pc \in InExecution \cup {"answered"}
          <5>1. v.proc # 0
            BY <3>1, StartedKnown
          <5>2. v.pc \notin {"unwinding", "stop", "remove"}
            BY <1>4 DEF TurnFits
          <5> QED
            BY <5>1, <5>2, <1>4 DEF HandlerFits, InExecution
        <4> QED
          BY <3>1, <4>1, <1>0, <1>4 DEF Held, TurnFits
      <3>2. CASE v.proc # p
        BY <3>2, <2>1, <1>0, <1>1, <1>11 DEF Held
      <3> QED
        BY <3>1, <3>2
    <2> QED
      BY <2>1, <1>r, HeldKept
  <1> QED
    BY <1>r, <1>7, <1>12, <1>13, <1>14, <1>15, <1>16, <1>18, <1>19

\* What the deletion takes from the records, it stops.
LEMMA DeleteTracked ==
  ASSUME DeletionInv, Tracked, Delete
  PROVE  Tracked'
  <1>0. /\ lock = {} /\ alive' = FALSE
        /\ doomed' = IF up THEN doomed \cup {i \in Ids : record[i] # 0} ELSE doomed
        /\ record' = [i \in Ids |-> 0] /\ shown' = [i \in Ids |-> "none"]
        /\ UNCHANGED runner /\ UNCHANGED <<lock, watch, handler, slot, orphans, unread>>
    BY DEF Delete
  <1> USE DEF Tracked
  <1>r. RunnerSound' /\ Grows /\ Started' = Started /\ proc' = proc /\ up' = up
    BY <1>0, RunnerSame DEF runner
  <1>1. HandlersSound'
    BY <1>0, <1>r, HandlersKept
  <1>2. SlotSound'
    BY <1>0, <1>r, SlotKept
  <1>3. RecordsSound'
    <2>1. \A g \in Handlers : ~At(g, "recorded")'
      BY <1>0 DEF DeletionInv, RegistrationsLocked, At
    <2>2. \A p \in Started' : \A i \in Ids : record'[i] # p
      BY <1>0, <1>r, StartedKnown
    <2>3. record' \in [Ids -> Started' \cup {0}]
      BY <1>0
    <2> QED
      BY <2>1, <2>2, <2>3 DEF RecordsSound
  <1>4. WatchesSound'
    BY <1>0, <1>r, WatchesKept
  <1>5. ShownSound'
    <2>1. shown' \in [Ids -> {"none", "running", "overflowed", "exited", "unavailable"}]
      BY <1>0
    <2>2. \A i \in Ids : shown'[i] = "none"
      BY <1>0
    <2>3. \A p \in Started' : proc'[p].id \in Ids
      BY <1>r, StartedKnown
    <2> QED
      BY <2>1, <2>2, <2>3 DEF ShownSound
  <1>6. RequestsCounted'
    BY <1>0, <1>r DEF RequestsCounted, Asked, At
  <1>7. LockSound'
    BY <1>0 DEF LockSound
  <1>8. ProcessesHeld'
    <2>1. ASSUME up', NEW p \in Started, Held(p)
          PROVE  Held(p)'
      <3>1. record[p] = p => p \in doomed'
        BY <2>1, <1>0, <1>r, StartedKnown
      <3> QED
        BY <3>1, <2>1, <1>0 DEF Held
    <2> QED
      BY <2>1, <1>r, HeldKept
  <1> QED
    BY <1>r, <1>1, <1>2, <1>3, <1>4, <1>5, <1>6, <1>7, <1>8

\* Without its Runner nothing runs that the Controller could stop.
LEMMA DisconnectTracked ==
  ASSUME Tracked, Disconnect
  PROVE  Tracked'
  <1>0. /\ up' = FALSE /\ proc' = proc
        /\ watch' = [p \in Procs |->
             IF watch[p].pc \in {"asked", "on"} THEN [watch[p] EXCEPT !.pc = "end"] ELSE watch[p]]
        /\ handler' = [h \in Handlers |->
             IF handler[h].pc \in {"asked", "waiting", "unwinding", "stop"} THEN Idle ELSE handler[h]]
        /\ orphans' = 0 /\ doomed' = {}
        /\ UNCHANGED <<alive, record, shown, lock, slot, unread>>
    BY DEF Disconnect, controller
  <1> USE DEF Tracked
  <1>r. RunnerSound' /\ Grows /\ Started' = Started
    BY DisconnectRunner
  <1>1. ASSUME NEW h \in Handlers, NEW v, v = handler'[h]
        PROVE  /\ HandlerFits(v)' /\ (h \in Users => UserFits(v)) /\ (h = Turn => TurnFits(v)')
               /\ v = handler[h] \/ v = Idle
    <2>1. CASE v = Idle
      BY <2>1, IdleFits
    <2>2. CASE v = handler[h]
      BY <2>2, <1>0, <1>r, HandlerKnown, HandlerKept, TurnKept
    <2> QED
      BY <2>1, <2>2, <1>0, <1>1
  <1>2. HandlersSound'
    <2>1. \A h \in Handlers : HandlerFits(handler[h])' /\ (h \in Users => UserFits(handler'[h]))
      <3> SUFFICES ASSUME NEW h \in Handlers
                   PROVE  HandlerFits(handler[h])' /\ (h \in Users => UserFits(handler'[h]))
        OBVIOUS
      <3>1. PICK v : v = handler'[h]
        OBVIOUS
      <3> QED
        BY <3>1, <1>1
    <2>2. TurnFits(handler[Turn])'
      <3>1. PICK v : v = handler'[Turn]
        OBVIOUS
      <3> QED
        BY <3>1, <1>1, TurnIsHandler
    <2>3. DOMAIN handler' = Handlers
      BY <1>0
    <2> QED
      BY <2>1, <2>2, <2>3, TurnIsHandler DEF HandlersSound, UserFits
  <1>3. SlotSound'
    BY <1>0, <1>r DEF SlotSound, Grows
  <1>4. RecordsSound'
    BY <1>0, <1>1, <1>r, RecordsKept DEF At, Idle
  <1>5. WatchesSound'
    <2>1. \A p \in Procs : WatchFits(p, watch[p])'
      <3> SUFFICES ASSUME NEW p \in Procs PROVE WatchFits(p, watch[p])'
        OBVIOUS
      <3>1. PICK v : v = watch[p]
        OBVIOUS
      <3>2. WatchFits(p, v)'
        BY <3>1, <1>r, WatchKept DEF WatchesSound
      <3>3. CASE v.pc \in {"asked", "on"}
        <4>1. PICK x : x = [v EXCEPT !.pc = "end"]
          OBVIOUS
        <4>2. x = watch'[p] /\ p \in Started
          BY <1>0, <3>1, <3>3, <4>1 DEF WatchesSound, WatchFits, NoWatch
        <4>3. /\ v \in Watcher'
              /\ v.of # 0 => proc'[v.of].id = proc'[p].id
              /\ v.mail = "exited" => v.of # 0 /\ ~proc'[v.of].running
          BY <3>2 DEF WatchFits
        <4>4. /\ x \in Watcher'
              /\ x.of = v.of /\ x.mail = v.mail /\ x.pc = "end"
          BY <4>1, <4>3
        <4>5. WatchFits(p, x)'
          BY <4>2, <4>3, <4>4, <1>0, <1>r DEF WatchFits
        <4> QED
          BY <4>2, <4>5
      <3>4. CASE v.pc \notin {"asked", "on"}
        BY <3>1, <3>2, <3>4, <1>0
      <3> QED
        BY <3>3, <3>4
    <2> QED
      BY <2>1, <1>0 DEF WatchesSound
  <1>6. ShownSound' /\ LockSound'
    BY <1>0, <1>r, ShownKept, LockKept
  <1>7. RequestsCounted'
    <2>1. Asked' = {}
      BY <1>0, <1>1 DEF Asked, At, Idle
    <2>2. 0 + Cardinality(Asked') <= MaxProcs
      BY <2>1, FS_EmptySet, ConstantsAssumption
    <2> QED
      BY <2>2, <1>0, <1>r DEF RequestsCounted
  <1>8. ProcessesHeld'
    BY <1>0 DEF ProcessesHeld
  <1> QED
    BY <1>r, <1>2, <1>3, <1>4, <1>5, <1>6, <1>7, <1>8

-----------------------------------------------------------------------------
\* Nothing was started.
LEMMA InitTracked == Init => Tracked
  <1> SUFFICES ASSUME Init PROVE Tracked
    OBVIOUS
  <1>0. /\ alive = TRUE /\ up = TRUE /\ proc = [p \in {} |-> 0]
        /\ managed = [i \in Ids |-> 0] /\ record = [i \in Ids |-> 0]
        /\ shown = [i \in Ids |-> "none"] /\ watch = [p \in Procs |-> NoWatch] /\ lock = {}
        /\ handler = [h \in Handlers |-> Idle]
        /\ slot = 0 /\ orphans = 0 /\ doomed = {} /\ unread = {}
    BY DEF Init
  <1>1. Started = {} /\ Latest = 0
    BY <1>0, FS_EmptySet DEF Started, Latest
  <1>2. 1..0 = {}
    OBVIOUS
  <1>3. RunnerSound
    BY <1>0, <1>1, <1>2, ConstantsAssumption DEF RunnerSound
  <1>4. /\ Idle \in [pc : {"idle", "asked", "answered", "waiting", "registering", "locking", "recorded",
                           "cancelling", "unwinding", "stop", "remove"},
                     proc : {0}, todo : {{}}, reg : {0}, then : {"none", "wait", "detach", "end"}, id : {0}]
        /\ Idle.pc = "idle" /\ Idle.proc = 0
    BY DEF Idle
  <1>5. Idle \in Handling
    BY <1>1 DEF Idle
  <1>6. HandlerFits(Idle) /\ UserFits(Idle) /\ TurnFits(Idle)
    BY <1>4, <1>5 DEF HandlerFits, UserFits, TurnFits, InExecution
  <1>7. HandlersSound
    BY <1>0, <1>6, TurnIsHandler DEF HandlersSound
  <1>8. SlotSound
    BY <1>0 DEF SlotSound
  <1>9. RecordsSound
    BY <1>0, <1>1, <1>4 DEF RecordsSound, At
  <1>10. WatchesSound
    <2>1. NoWatch \in Watcher
          /\ NoWatch.pc = "none" /\ NoWatch.of = 0 /\ NoWatch.mail = "none"
      BY DEF NoWatch
    <2>2. \A p \in Procs : WatchFits(p, NoWatch)
      BY <2>1 DEF WatchFits
    <2> QED
      BY <1>0, <2>2 DEF WatchesSound
  <1>11. ShownSound
    BY <1>0, <1>1 DEF ShownSound
  <1>12. RequestsCounted
    <2>1. Asked = {}
      BY <1>0, <1>4 DEF Asked, At
    <2>2. orphans + Cardinality(Asked) <= MaxProcs
      BY <1>0, <2>1, FS_EmptySet, ConstantsAssumption
    <2> QED
      BY <1>0, <2>2 DEF RequestsCounted
  <1>13. LockSound /\ ProcessesHeld
    BY <1>0, <1>1 DEF LockSound, ProcessesHeld
  <1> QED
    BY <1>3, <1>7, <1>8, <1>9, <1>10, <1>11, <1>12, <1>13 DEF Tracked

\* Every step keeps the invariant.
LEMMA NextTracked == IInv /\ [Next]_vars => Tracked'
  <1> SUFFICES ASSUME DeletionInv, Tracked, [Next]_vars PROVE Tracked'
    BY DEF IInv
  <1>1. CASE UNCHANGED vars
    BY <1>1, StutterTracked
  <1>2. ASSUME NEW h \in Handlers, Exec(h) \/ \E id \in Ids : BeginStop(h, id)
        PROVE  Tracked'
    BY <1>2, ExecTracked, BeginStopTracked
  <1>3. ASSUME NEW h \in Handlers, StepOf(h)
        PROVE  Tracked'
    BY <1>3, AnswerStartTracked, SubscribeUserTracked, RegisterTracked, RegisterOccupiedTracked,
       RegisterFailsTracked, StopUnregisteredTracked, ViewTracked, StopForUserTracked,
       RemoveRecordTracked DEF StepOf
  <1>4. CASE StepOfTurn
    BY <1>4, HoldTracked, AnswerWaitTracked, ExecFailsTracked, RoundEndsTracked, StopSlotTracked,
       SubscribeTurnTracked DEF StepOfTurn
  <1>5. CASE Cancel \/ Delete
    BY <1>5, CancelTracked, DeleteTracked
  <1>6. CASE AnswerAbandonedStart \/ Disconnect
    BY <1>6, AbandonedTracked, DisconnectTracked
  <1>7. ASSUME NEW id \in Ids, StopInside(id) \/ StopDoomed(id)
        PROVE  Tracked'
    BY <1>7, StopInsideTracked, StopDoomedTracked
  <1>8. ASSUME NEW p \in Started, Exit(p) \/ StepFor(p) \/ \E id \in Chosen : Spawn(p, id)
        PROVE  Tracked'
    BY <1>8, ExitTracked, SpawnTracked, ResolveTracked, SendExitTracked, HearTracked DEF StepFor
  <1> QED
    BY <1>1, <1>2, <1>3, <1>4, <1>5, <1>6, <1>7, <1>8 DEF Next

\* An id that was given once is its process's alone.
LEMMA GivenOnceAlone ==
  ASSUME RunnerSound, NEW p \in Started, GivenOnce(proc[p].id)
  PROVE  Alone(p)
  <1> DEFINE S == {q \in Started : proc[q].id = proc[p].id}
  <1>1. IsFiniteSet(1..Latest)
    BY FS_Interval DEF RunnerSound
  <1>2. S \in SUBSET (1..Latest)
    BY DEF RunnerSound
  <1>3. IsFiniteSet(S) /\ Cardinality(S) = 1
    BY <1>1, <1>2, FS_Subset DEF GivenOnce
  <1>4. PICK x : S = {x}
    BY <1>3, FS_Singleton
  <1>5. p \in S
    OBVIOUS
  <1>6. ASSUME NEW q \in Started, proc[q].id = proc[p].id PROVE q = p
    <2>1. q \in S
      BY <1>6
    <2> QED
      BY <2>1, <1>4, <1>5
  <1> QED
    BY <1>6 DEF Alone

\* The types are part of the invariant.
LEMMA TrackedTypes == Tracked => TypeOK
  <1> SUFFICES ASSUME Tracked PROVE TypeOK
    OBVIOUS
  <1> USE DEF Tracked
  <1>1. Cardinality(lock) <= 1 /\ lock \in SUBSET Handlers /\ alive \in BOOLEAN
    <2>1. CASE lock = {}
      BY <2>1, FS_EmptySet DEF LockSound
    <2>2. ASSUME NEW h \in Handlers, lock = {h}
          PROVE  Cardinality(lock) <= 1
      <3>1. Cardinality({h}) = 1
        BY FS_Singleton
      <3> QED
        BY <2>2, <3>1
    <2> QED
      BY <2>1, <2>2 DEF LockSound
  <1>2. orphans \in 0..MaxProcs /\ doomed \in SUBSET Ids /\ unread \in SUBSET Started
    BY AskedFinite, ConstantsAssumption DEF RequestsCounted
  <1>3. /\ watch \in [Procs -> Watcher]
    <2>1. watch = [p \in Procs |-> watch[p]]
      BY DEF WatchesSound
    <2> QED
      BY <2>1 DEF WatchesSound, WatchFits
  <1>4. \A h \in Handlers : handler[h] \in
          Handling
    BY DEF HandlersSound, HandlerFits
  <1>5. /\ managed \in [Ids -> Started \cup {0}] /\ record \in [Ids -> Started \cup {0}]
        /\ shown \in [Ids -> {"none", "running", "overflowed", "exited", "unavailable"}]
        /\ slot \in Started \cup {0}
    BY DEF RunnerSound, RecordsSound, ShownSound, SlotSound
  <1>6. \A i \in Ids, p \in Started : p \in {managed[i], record[i]} => proc[p].id = i
    BY DEF RunnerSound, RecordsSound
  <1>7. /\ up \in BOOLEAN /\ Started = 1..Latest /\ Latest <= MaxProcs
        /\ \A p \in Started : proc[p] \in
             Process
    BY DEF RunnerSound
  <1> QED
    BY <1>1, <1>2, <1>3, <1>4, <1>5, <1>6, <1>7 DEF TypeOK

\* The three properties follow from the invariant.
LEMMA TrackedIsTracked == Tracked => ProcessesAreTracked
  <1> SUFFICES ASSUME Tracked PROVE ProcessesAreTracked
    OBVIOUS
  <1> USE DEF Tracked
  <1>1. StartedIsHeld
    <2> SUFFICES ASSUME up, NEW p \in Started, Running(p), proc[p].parent = 0
                 PROVE  \/ record[proc[p].id] = p \/ slot = p \/ proc[p].id \in doomed \/ p \in unread
                        \/ \E h \in Handlers : handler[h].proc = p
      BY DEF StartedIsHeld
    <2>1. proc[p].id = p /\ Held(p)
      BY DEF RunnerSound, ProcessesHeld, Running
    <2> QED
      BY <2>1 DEF Held
  <1>2. EndedIsTrue
    BY GivenOnceAlone DEF EndedIsTrue, ShownSound, Running
  <1> QED
    BY <1>1, <1>2, TrackedTypes DEF ProcessesAreTracked

\* A process the Controller started and that runs is somebody's to stop, and one
\* that is shown as ended has ended, for any number of processes, ids, clients and
\* requests that nobody waits for.  (set_process, clear_process,
\* take_thread_processes, register_managed_process, watch_process)
THEOREM ProcessesTracked == Spec => []ProcessesAreTracked
  <1>1. Init => IInv
    BY InitDeletion, InitTracked DEF IInv
  <1>2. IInv /\ [Next]_vars => IInv'
    BY NextDeletion, NextTracked DEF IInv
  <1>3. IInv => ProcessesAreTracked
    BY TrackedIsTracked DEF IInv
  <1> QED
    BY <1>1, <1>2, <1>3, PTL DEF Spec
=============================================================================
