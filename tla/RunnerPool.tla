----------------------------- MODULE RunnerPool -----------------------------
(***************************************************************************)
(* The Runners of the Controller: launched and launched again by clients,  *)
(* watched for their end, given the skills by every turn that prepares and *)
(* asked by the turns' commands.  Launches hold the pool's lock from the   *)
(* first publication to the last; turns take copies under it and go on     *)
(* without.  A Runner's environment has a lock of its own.                 *)
(*                                                                         *)
(* A generation of skills is the number of the disk it was collected from, *)
(* a digest the least generation with the same manifest.  The Runners'     *)
(* hosts share one store of objects and trees.  The deployment of the      *)
(* platform's tools is like that of the skills and part of StartRunner.    *)
(***************************************************************************)
EXTENDS Skills

CONSTANTS
  Names,       \* of Runners
  Turns,       \* each prepares once, and runs one command
  Launches,    \* each launches one Runner, in their order: 1..n
  Generations, \* what Collect makes of the disks that the user writes, one after the other
  Message,     \* what the users of the turns say
  MaxRunners,  \* bound: Runners started
  Mixes        \* bound: who takes part, how many edits, and whether Runners end

VARIABLES
  disk,      \* the index of what is on disk
  cached,    \* State.skill_generation; 0: none
  slots,     \* RunnerPool.runners: the Runner (0: none) and its watcher
  holder,    \* of the lock on them; 0: nobody
  shown,     \* the Runners in the Controller's view
  runners,   \* the Runners started, in order
  objects,   \* of the store of the Runners' hosts
  trees,     \* its trees, by digest
  task,      \* the handlers
  mixed,     \* history: turns that met a generation other than their own
  mix        \* the mix of this behaviour

pool == <<slots, holder, shown>>
store == <<objects, trees>>
handlers == <<disk, cached, pool, runners, store, task>>
vars == <<handlers, mixed, mix>>

Tasks == Launches \cup Turns
Started == DOMAIN runners

Digest(g) ==
  CHOOSE i \in DOMAIN Generations :
    /\ Generations[i].manifest = Generations[g].manifest
    /\ \A j \in 1..(i - 1) : Generations[j].manifest # Generations[g].manifest

NoConfig == 0
Idle == [pc |-> "idle", gen |-> 0, name |-> "", runner |-> 0, todo |-> {}, listed |-> {},
         told |-> {}, invoked |-> <<>>, ran |-> 0]

Init ==
  /\ disk = 1 /\ cached = 0
  /\ slots = [n \in Names |-> [runner |-> 0, watcher |-> "none"]]
  /\ holder = 0
  /\ shown = [n \in Names |-> [state |-> "none", config |-> NoConfig]]
  /\ runners = <<>>
  /\ objects = {} /\ trees = {}
  /\ task = [t \in Tasks |-> Idle]
  /\ mixed = {}
  /\ mix \in Mixes

At(t, pc) == task[t].pc = pc
Goto(t, pc) == task' = [task EXCEPT ![t].pc = pc]
Fails(t) == task' = [task EXCEPT ![t].pc = "failed"]

Show(n, state, config) == shown' = [shown EXCEPT ![n] = [state |-> state, config |-> config]]

-----------------------------------------------------------------------------
\* The user edits the skills.
Edit == disk <= mix.edits /\ disk < Len(Generations) /\ disk' = disk + 1 /\ UNCHANGED <<cached, pool, runners, store, task>>

\* The process of a Runner ends.
Exit(r) ==
  /\ mix.exits /\ runners[r].alive
  /\ runners' = [runners EXCEPT ![r].alive = FALSE]
  /\ UNCHANGED <<disk, cached, pool, store, task>>

\* watch_runner: after half a second, if nobody aborted it
Watch(n) ==
  /\ slots[n].watcher = "watching" /\ ~runners[slots[n].runner].alive
  /\ slots' = [slots EXCEPT ![n].watcher = IF holder # 0 /\ task[holder].name = n THEN "rushed" ELSE "done"]
  /\ Show(n, "failed", runners[slots[n].runner].watched)
  /\ UNCHANGED <<disk, cached, holder, runners, store, task>>

-----------------------------------------------------------------------------
\* launch_runner: the generation that was collected last, or a first one
TakeGeneration(t, n) ==
  /\ At(t, "idle") /\ \A u \in mix.launches : u < t => ~At(u, "idle")
  /\ LET g == IF cached # 0 THEN cached ELSE disk
     IN IF cached # 0 \/ Generations[disk].ok
          THEN task' = [task EXCEPT ![t].pc = "launch", ![t].gen = g, ![t].name = n] /\ cached' = g
          ELSE Fails(t) /\ UNCHANGED cached
  /\ UNCHANGED <<disk, pool, runners, store>>

\* RunnerPool::launch: start_runner_launch, then the watcher of the slot
BeginLaunch(t) ==
  LET n == task[t].name
  IN /\ At(t, "launch") /\ holder = 0
     /\ IF shown[n].state = "launching"
          THEN Fails(t) /\ UNCHANGED pool
          ELSE /\ holder' = t /\ Show(n, "launching", t) /\ Goto(t, "abort") /\ UNCHANGED slots
     /\ UNCHANGED <<disk, cached, runners, store>>

AbortWatcher(t) ==
  /\ At(t, "abort")
  /\ slots' = [slots EXCEPT ![task[t].name].watcher = IF @ = "watching" THEN "aborted" ELSE @]
  /\ Goto(t, "start")
  /\ UNCHANGED <<disk, cached, holder, shown, runners, store>>

Lives(n) == slots[n].runner # 0 /\ runners[slots[n].runner].alive

\* A Runner that still runs is kept, with the new configuration.
Relaunch(t) ==
  LET n == task[t].name r == slots[n].runner
  IN /\ At(t, "start") /\ Lives(n)
     /\ runners' = [runners EXCEPT ![r].config = t, ![r].watched = t]
     /\ slots' = [slots EXCEPT ![n].watcher = "watching"]
     /\ Goto(t, "launched")
     /\ UNCHANGED <<disk, cached, holder, shown, store>>

\* Runner::start
StartRunner(t) ==
  /\ At(t, "start") /\ ~Lives(task[t].name) /\ Len(runners) < MaxRunners
  /\ runners' = Append(runners,
       [config |-> t, watched |-> t, alive |-> TRUE, environment |-> 0, digest |-> 0, lock |-> 0])
  /\ task' = [task EXCEPT ![t].pc = "sync", ![t].runner = Len(runners) + 1]
  /\ UNCHANGED <<disk, cached, pool, store>>

\* It does not start, or ends before it answers.
StartFails(t) ==
  /\ At(t, "start") /\ ~Lives(task[t].name)
  /\ Goto(t, "refused")
  /\ UNCHANGED <<disk, cached, pool, runners, store>>

\* The new Runner is in the pool, and watched.
Insert(t) ==
  /\ t \in Launches /\ At(t, "synced")
  /\ slots' = [slots EXCEPT ![task[t].name] = [runner |-> task[t].runner, watcher |-> "watching"]]
  /\ Goto(t, "launched")
  /\ UNCHANGED <<disk, cached, holder, shown, runners, store>>

PublishLaunch(t) ==
  /\ task[t].pc \in {"launched", "refused"}
  /\ Show(task[t].name, IF At(t, "launched") THEN "running" ELSE "failed", t)
  /\ holder' = 0
  /\ Goto(t, "done")
  /\ UNCHANGED <<disk, cached, slots, runners, store>>

-----------------------------------------------------------------------------
\* State::sync_skills
CollectSkills(t) ==
  /\ At(t, "idle")
  /\ IF Generations[disk].ok
       THEN task' = [task EXCEPT ![t].pc = "collected", ![t].gen = disk]
       ELSE Fails(t)
  /\ UNCHANGED <<disk, cached, pool, runners, store>>

\* RunnerPool::sync_skills: the Runners there are
TakeRunners(t) ==
  /\ At(t, "collected") /\ holder = 0
  /\ task' = [task EXCEPT ![t].pc = "each", ![t].todo = {slots[n].runner : n \in Names} \ {0}]
  /\ UNCHANGED <<disk, cached, pool, runners, store>>

NextRunner(t, r) ==
  /\ At(t, "each") /\ r \in task[t].todo
  /\ task' = [task EXCEPT ![t].todo = @ \ {r}, ![t].runner = r,
                          ![t].pc = IF runners[r].alive THEN "sync" ELSE "each"]
  /\ UNCHANGED <<disk, cached, pool, runners, store>>

\* Runner::sync_skills, by a turn or by the launch of the Runner
Synced(t) == IF t \in Turns THEN "each" ELSE "synced"

CheckDigest(t) ==
  /\ At(t, "sync")
  /\ Goto(t, IF runners[task[t].runner].digest = Digest(task[t].gen) THEN Synced(t) ELSE "lock")
  /\ UNCHANGED <<disk, cached, pool, runners, store>>

LockAndNote(t) ==
  LET r == task[t].runner
  IN /\ At(t, "lock") /\ runners[r].lock = 0
     /\ runners' = [runners EXCEPT ![r].lock = t, ![r].digest = Digest(task[t].gen)]
     /\ Goto(t, IF Generations[task[t].gen].manifest = {} THEN "deployed" ELSE "deploy")
     /\ UNCHANGED <<disk, cached, pool, store>>

LockEnvironment(t) ==
  LET r == task[t].runner
  IN /\ At(t, "lock") /\ runners[r].lock = 0
     /\ runners' = [runners EXCEPT ![r].lock = t]
     /\ Goto(t, IF Generations[task[t].gen].manifest = {} THEN "deployed" ELSE "deploy")
     /\ UNCHANGED <<disk, cached, pool, store>>

\* deploy_tree: the Runner's prepare_tree, which makes the tree if it has the objects
PrepareTree(t) ==
  LET g == task[t].gen
  IN /\ At(t, "deploy") /\ runners[task[t].runner].alive
     /\ IF Digest(g) \in trees \/ Objects(Generations[g].manifest) \subseteq objects
          THEN trees' = trees \cup {Digest(g)} /\ Goto(t, "deployed")
          ELSE Goto(t, "upload") /\ UNCHANGED trees
     /\ UNCHANGED <<disk, cached, pool, runners, objects>>

\* upload_object for each object that was missing
UploadObjects(t) ==
  /\ At(t, "upload") /\ runners[task[t].runner].alive
  /\ objects' = objects \cup Objects(Generations[task[t].gen].manifest)
  /\ Goto(t, "deploy")
  /\ UNCHANGED <<disk, cached, pool, runners, trees>>

Unlocked(t) == [r \in Started |->
  IF runners[r].lock = t THEN [runners[r] EXCEPT !.lock = 0] ELSE runners[r]]

\* The Runner ended or cannot store the tree: the turn fails; the launch is
\* refused and its Runner killed.
DeployFails(t) ==
  /\ task[t].pc \in {"deploy", "upload"}
  /\ runners' = IF t \in Turns THEN Unlocked(t)
                 ELSE [Unlocked(t) EXCEPT ![task[t].runner].alive = FALSE]
  /\ \E some \in SUBSET (Objects(Generations[task[t].gen].manifest) \ objects) :
       objects' = IF At(t, "upload") THEN objects \cup some ELSE objects
  /\ Goto(t, IF t \in Turns THEN "failed" ELSE "refused")
  /\ UNCHANGED <<disk, cached, pool, trees>>

SetEnvironment(t) ==
  LET g == task[t].gen
  IN /\ At(t, "deployed")
     /\ runners' = [runners EXCEPT ![task[t].runner].environment =
                      IF Generations[g].manifest = {} THEN 0 ELSE Digest(g)]
     /\ Goto(t, "digest")
     /\ UNCHANGED <<disk, cached, pool, store>>

\* The lock on the digest is free but for an instant, so the turn is not dropped here.
SetDigest(t) ==
  /\ At(t, "digest")
  /\ runners' = [Unlocked(t) EXCEPT ![task[t].runner].digest = Digest(task[t].gen)]
  /\ Goto(t, Synced(t))
  /\ UNCHANGED <<disk, cached, pool, store>>

\* The rest of State::sync_skills, and the message of run_turn
TellSkills(t) ==
  LET g == Generations[task[t].gen]
  IN /\ At(t, "each") /\ task[t].todo = {}
     /\ cached' = task[t].gen
     /\ task' = [task EXCEPT ![t].pc = "told", ![t].told = g.prompt,
                             ![t].invoked = ResolveInvocations(Message, g.skills).invoked]
     /\ UNCHANGED <<disk, pool, runners, store>>

\* sync_runners: RunnerPool::list
ListRunners(t) ==
  /\ At(t, "told") /\ holder = 0
  /\ task' = [task EXCEPT ![t].pc = "ready", ![t].listed = {n \in Names : Lives(n)}]
  /\ UNCHANGED <<disk, cached, pool, runners, store>>

\* A command of the turn: RunnerPool::get, then Runner::start_command
GetRunner(t, n) ==
  /\ At(t, "ready") /\ n \in task[t].listed /\ holder = 0
  /\ IF Lives(n)
       THEN task' = [task EXCEPT ![t].pc = "command", ![t].runner = slots[n].runner]
       ELSE Goto(t, "done")
  /\ UNCHANGED <<disk, cached, pool, runners, store>>

RunCommand(t) ==
  LET r == task[t].runner
  IN /\ At(t, "command") /\ runners[r].lock = 0
     /\ task' = [task EXCEPT ![t].pc = IF runners[r].alive THEN "ran" ELSE "done",
                             ![t].ran = runners[r].environment]
     /\ UNCHANGED <<disk, cached, pool, runners, store>>

\* The turn is cancelled: what it was doing is dropped.
Cancel(t) ==
  /\ task[t].pc \notin {"idle", "digest", "ran", "done", "failed"}
  /\ runners' = Unlocked(t)
  /\ Goto(t, "done")
  /\ UNCHANGED <<disk, cached, pool, store>>

-----------------------------------------------------------------------------
LaunchStep(t) ==
  \/ BeginLaunch(t) \/ AbortWatcher(t) \/ Relaunch(t) \/ StartRunner(t) \/ StartFails(t)
  \/ Insert(t) \/ PublishLaunch(t)

SyncStep(t) ==
  \/ CheckDigest(t) \/ LockEnvironment(t) \/ PrepareTree(t) \/ UploadObjects(t) \/ DeployFails(t)
  \/ SetEnvironment(t) \/ SetDigest(t)

TurnStep(t) ==
  \/ TakeRunners(t) \/ (\E r \in Started : NextRunner(t, r)) \/ TellSkills(t) \/ ListRunners(t)
  \/ (\E n \in Names : GetRunner(t, n)) \/ RunCommand(t)

Step ==
  \/ Edit
  \/ \E r \in Started : Exit(r)
  \/ \E n \in Names : Watch(n)
  \/ \E t \in mix.launches : (\E n \in mix.names : TakeGeneration(t, n)) \/ LaunchStep(t)
  \/ \E t \in mix.turns : CollectSkills(t) \/ TurnStep(t) \/ Cancel(t)
  \/ \E t \in Tasks : SyncStep(t)

\* Between its collection of the skills and its end a task may give Runners, or
\* launches to come, the generation it took.
Holds(t) == task[t].gen # 0 /\ task[t].pc \notin {"told", "ready", "command", "ran", "done", "failed"}

Remember ==
  /\ mixed' = mixed \cup {t \in Turns : task'[t].gen # 0 /\ ~At(t, "ran") /\
                         \E u \in Tasks \ {t} : Holds(u)' /\ task'[u].gen # task'[t].gen}
  /\ UNCHANGED mix

Next == Step /\ Remember

Spec == Init /\ [][Next]_vars

\* Handlers and watchers run, Runners answer.
Fairness ==
  /\ \A t \in Tasks : WF_handlers(LaunchStep(t) \/ SyncStep(t) \/ TurnStep(t))
  /\ \A n \in Names : WF_handlers(Watch(n))

FairSpec == Spec /\ Fairness

-----------------------------------------------------------------------------
TypeOK ==
  /\ disk \in DOMAIN Generations /\ cached \in {0} \cup DOMAIN Generations
  /\ \A n \in Names :
       /\ slots[n].runner \in {0} \cup Started
       /\ slots[n].watcher \in {"none", "watching", "aborted", "done", "rushed"}
       /\ shown[n].state \in {"none", "launching", "running", "failed"}
  /\ holder \in {0} \cup Launches
  /\ \A r \in Started : runners[r].lock \in {0} \cup Tasks
  /\ mixed \subseteq Turns

\* But for the name that is launched: a Runner shown as running has the shown
\* configuration, and runs or has a watcher that will see its end; one shown as
\* failed does not run.  The hole is a watcher that saw the end before the launch
\* was published.
\* (RunnerPool::launch, watch_runner)
ShownRunnersAreTrue ==
  \A n \in Names : (holder # 0 => task[holder].name # n) =>
    /\ (shown[n].state = "running" /\ slots[n].watcher # "rushed") =>
         /\ runners[slots[n].runner].config = shown[n].config
         /\ Lives(n) \/ slots[n].watcher = "watching"
    /\ shown[n].state = "failed" => ~Lives(n)

\* The tree a digest stands for is what the environment names, and it is whole.
\* (Runner::sync_skills, Store::prepare_tree)
DigestIsTrue ==
  /\ \A r \in Started : (runners[r].digest # 0 /\ runners[r].lock = 0) =>
       runners[r].environment =
         IF Generations[runners[r].digest].manifest = {} THEN 0 ELSE runners[r].digest
  /\ \A g \in trees : Objects(Generations[g].manifest) \subseteq objects
  /\ \A r \in Started : runners[r].environment \in {0} \cup trees

\* What a command finds under $ATRA_SKILLS/name/SKILL.md.
Finds(g, name, text) ==
  \E e \in Generations[g].manifest : e.path = <<name, "SKILL.md">> /\ e.content = text

\* A command of a turn finds every skill the turn was told of, and those the
\* message invoked with the instructions that were read, unless another
\* generation of the skills was given out beside it.
\* (State::sync_skills, RunnerPool::launch, skills::collect)
SkillsAreServed ==
  \A t \in Turns \ mixed : At(t, "ran") =>
    LET served(name) == \E s \in Generations[task[t].gen].skills :
                          s.name = name /\ Finds(task[t].ran, name, s.instructions)
    IN /\ \A name \in task[t].told : task[t].ran # 0 /\ served(name)
       /\ \A s \in Range(task[t].invoked) :
            task[t].ran # 0 /\ Finds(task[t].ran, s.name, s.instructions)

\* A message invokes every skill it names, once.  (skills::resolve_invocations)
InvokedOnce ==
  \A t \in Turns : task[t].told # {} =>
    LET names == [i \in DOMAIN task[t].invoked |-> task[t].invoked[i].name]
        named == {w.name : w \in {w \in Range(Message) : w.kind = "mention"}}
    IN /\ IsInjective(names)
       /\ Range(names) = named \cap {s.name : s \in Generations[task[t].gen].skills}

\* What clients see of the Runners and what commands find on them is true.
RunnersAreTrue == TypeOK /\ ShownRunnersAreTrue /\ DigestIsTrue /\ SkillsAreServed /\ InvokedOnce

\* The end of a Runner is shown, and no launch lasts for ever.
\* (watch_runner, RunnerPool::launch)
RunnersEnd ==
  \A n \in Names :
    []<>(/\ shown[n].state # "launching"
         /\ shown[n].state = "running" => Lives(n) \/ slots[n].watcher = "rushed")
=============================================================================
