------------------------- MODULE MCManagedProcesses -------------------------
\* The managed processes of a thread, with one id that commands may choose again
\* (ManagedProcesses), and the Runners they run on (RunnerPool).  The two share
\* nothing; a behaviour is of one of them.
EXTENDS ManagedProcesses, Skills

CONSTANTS Names, Turns, Launches, MaxRunners, t1, t2, r1, r2

VARIABLES part, disk, cached, slots, holder, listed, runners, objects, trees, task, mixed, mix

poolVars == <<disk, cached, slots, holder, listed, runners, objects, trees, task, mixed, mix>>

File(path, content) == [path |-> path, kind |-> "file", target |-> <<>>, content |-> content]
Link(path, target) == [path |-> path, kind |-> "link", target |-> target, content |-> ""]
Socket == [path |-> <<"s">>, kind |-> "unusable", target |-> <<>>, content |-> ""]

Directory(path, name, text, entries) ==
  [path |-> path, name |-> name, text |-> text, sound |-> TRUE, hidden |-> FALSE,
   entries |-> entries \cup {File(<<"SKILL.md">>, text)}]
Skill(name, text) == Directory(<<name>>, name, text, {Link(<<"docs">>, <<"SKILL.md">>)})

Source(directories) == [broken |-> FALSE, directories |-> directories]
Builtin == Source(<<Skill("setup", "builtin")>>)

\* Twins in two sources; then a skill of the workspace that cannot be collected
\* hides one of the user, a skill lies within a skill, one is hidden, one has a link
\* that leads nowhere; then a source that is not a directory; then nothing.
MCDisks == <<
  <<Source(<<>>), Builtin, Source(<<Skill("review", "atra")>>), Source(<<Skill("review", "user")>>)>>,
  <<Source(<<Skill("review", "workspace"),
             Directory(<<"review", "inner">>, "inner", "within", {}),
             [Directory(<<"x", "test">>, "test", "test", {File(<<"a", "b">>, "ab")}) EXCEPT !.hidden = TRUE],
             Directory(<<"y", "bare">>, "bare", "bare", {Link(<<"q">>, <<"nowhere">>)}),
             Directory(<<"node_modules", "z">>, "z", "z", {})>>),
    Builtin, Source(<<>>),
    Source(<<Skill("bare", "user"), Directory(<<"socket">>, "socket", "socket", {Socket})>>)>>,
  <<[broken |-> TRUE, directories |-> <<>>], Builtin, Source(<<>>), Source(<<>>)>>,
  <<Source(<<>>), Source(<<>>), Source(<<>>), Source(<<>>)>> >>

Word(kind, name) == [kind |-> kind, name |-> name]
MCMessage == <<Word("mention", "review"), Word("escaped", "setup"), Word("mention", "review"),
               Word("mention", "bare"), Word("text", ""), Word("mention", "test")>>

Mix(turns, names, launches, edits, exits) ==
  [turns |-> turns, names |-> names, launches |-> launches, edits |-> edits, exits |-> exits]
MCMixes ==
  {Mix({t1}, {r1}, {1, 2}, 0, TRUE), Mix({t1}, {r1}, {1}, 3, TRUE),
   Mix({t1, t2}, {r1}, {1}, 1, FALSE), Mix({t1}, {r1, r2}, {1, 2}, 0, FALSE)}

MCGenerations == CollectAll(MCDisks)

Pool == INSTANCE RunnerPool WITH Generations <- MCGenerations, Message <- MCMessage,
                                 Mixes <- MCMixes, shown <- listed

MCInit ==
  /\ part \in {"processes", "runners"}
  /\ Init
  /\ Pool!Init /\ (part = "runners" \/ mix = CHOOSE m \in MCMixes : TRUE)

ProcessStep == part = "processes" /\ Next /\ UNCHANGED <<part, poolVars>>
RunnerStep == part = "runners" /\ Pool!Next /\ UNCHANGED <<part, vars>>

MCSpec ==
  /\ MCInit /\ [][ProcessStep \/ RunnerStep]_<<part, vars, poolVars>>
  /\ Fairness /\ Pool!Fairness

\* What clients see of the Runners, and what commands find on them, is true.
\* (RunnerPool::launch, Runner::sync_skills, skills::collect)
RunnersAreTrue == Pool!RunnersAreTrue

\* The end of a process and the end of a Runner are shown, and launches end.
\* (watch_process, watch_runner, RunnerPool::launch)
EndsAreShown == EndIsShown /\ Pool!RunnersEnd
=============================================================================
