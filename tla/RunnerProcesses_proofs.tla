---------------------- MODULE RunnerProcesses_proofs ----------------------
(***************************************************************************)
(* Proofs about the processes of a Runner, for any handles, any requests   *)
(* and any amount of output: what the answers of a process say is complete *)
(* and said once.                                                          *)
(***************************************************************************)
EXTENDS RunnerProcesses, FiniteSetTheorems, TLAPS

-----------------------------------------------------------------------------
(* The inductive invariant.                                                *)

\* The types of TypeOK, of which OneHolder is the count of the lock's holders.
ProcRec ==
  [running : BOOLEAN, open : BOOLEAN, written : 0..MaxChunks,
   read : 0..MaxChunks, tail : 0..MaxChunks, buffer : SUBSET (1..MaxChunks),
   shutdown : BOOLEAN, closed : BOOLEAN, news : SUBSET Tasks, patching : SUBSET Tasks]
TaskRec(procs) ==
  [kind : Kinds \cup {"none"}, handle : Handles \cup {"none"}, proc : 0..procs, child : 0..procs,
   pc : {"new", "look", "collect", "await", "finish", "lock", "drain", "remove",
         "report", "start", "push", "apply", "last", "done"},
   got : SUBSET (1..MaxChunks), told : SUBSET Tasks, left : BOOLEAN,
   answer : {"none", "running", "finished", "stopped", "failed"}]
Typed ==
  /\ started \in 0..MaxProcs
  /\ proc \in [Procs -> ProcRec]
  /\ \A p \in Procs : proc[p].tail <= proc[p].read /\ proc[p].read <= proc[p].written
  /\ managed \in [Handles -> 0..started]
  /\ task \in [Tasks -> TaskRec(started)]

\* Each kind of request has its own steps, and no answer before the last of them.
KindFits(pc, kind) ==
  /\ pc = "new" <=> kind = "none"
  /\ pc = "collect" => kind \in {"wait", "child"}
  /\ pc = "look" => kind \in {"wait", "child", "subscribe"}
  /\ pc = "await" => kind = "stop"
  /\ pc = "finish" => kind \in {"wait", "child", "stop", "subscribe"}
  /\ pc = "lock" => kind \in {"stop", "patch"}
  /\ pc \in {"drain", "remove", "report"} => kind \in {"wait", "child", "stop"}
  /\ pc \in {"start", "push"} => kind = "spawn"
  /\ pc = "apply" => kind = "patch"
  /\ pc = "last" => kind = "subscribe"

\* A request r was found when n processes were started; it has no answer, and
\* tells no news, before its last steps.
Found(r, n) ==
  /\ KindFits(r.pc, r.kind)
  /\ r.kind # "none" => r.proc \in 1..n
  /\ r.pc # "done" => r.told = {}
  /\ r.pc \notin {"report", "done"} => r.answer = "none"

\* A request that is past finish_output, or answered so.
Past(r) ==
  \/ r.pc \in {"drain", "remove", "last"}
  \/ r.pc = "lock" /\ r.kind = "stop"
  \/ r.pc \in {"report", "done"} /\ r.answer \in {"finished", "stopped"}

\* What a request r says of its process q: it answers what was read; past
\* finish_output the reader has ended or was given up on, and if it has ended,
\* nothing is left past the last take_output, and the last state of a
\* subscription shows the tail.
Answered(r, q) ==
  /\ r.kind \in {"wait", "child", "stop"} => r.got \subseteq 1..q.read
  /\ r.kind \in {"wait", "child", "stop", "subscribe"} /\ Past(r) /\ ~r.left => q.closed
  /\ r.kind \in {"wait", "child", "stop"} /\ Past(r) /\ r.pc \in {"remove", "report", "done"} /\ ~r.left
       => q.buffer = {}
  /\ r.kind = "subscribe" /\ r.pc = "done" => r.answer = "finished" /\ (~r.left => r.got = 1..q.tail)

RequestsAreTrue ==
  \A t \in Tasks :
    /\ Found(task[t], started)
    /\ task[t].kind # "none" => Answered(task[t], proc[task[t].proc])

\* Buffered chunks were read; a reader that ended read the tail, too.
Reader(q) == q.buffer \subseteq 1..q.read /\ (q.closed => q.tail = q.read)
ReadersAreTrue == \A p \in Procs : Reader(proc[p])

\* One request holds the lock `patching` of a process.
OneHolder == \A p \in Procs : \A t, u \in proc[p].patching : t = u

\* A spawn or patch that was made; the request that made it is of its process.
Made(r) == r.kind \in {"spawn", "patch"} /\ r.pc = "done" /\ r.answer = "finished"

\* What is news was made by the process; what was told is news no more; and
\* what was made is one of the two.
NewsIsMade == \A p \in Procs : \A n \in proc[p].news : Made(task[n]) /\ task[n].proc = p
ToldIsMade ==
  \A t \in Tasks : \A n \in task[t].told :
    /\ t \in Waits /\ Made(task[n]) /\ task[n].proc = task[t].proc
    /\ n \notin proc[task[n].proc].news
ToldOnce == \A t, u \in Tasks : \A n \in task[t].told : n \in task[u].told => t = u
MadeIsKnown ==
  \A n \in Tasks : Made(task[n]) =>
    n \in proc[task[n].proc].news \/ \E t \in Tasks : n \in task[t].told
NewsIsTrue == NewsIsMade /\ ToldIsMade /\ ToldOnce /\ MadeIsKnown

AnswersInv ==
  /\ Typed /\ RequestsAreTrue /\ ReadersAreTrue /\ OneHolder
  /\ OutputAnsweredOnce /\ OutputKept /\ NewsIsTrue

-----------------------------------------------------------------------------
(* What every step keeps.                                                  *)

\* A process only goes forward: what was read stays read, and once the reader
\* ended nothing is added.
Forward(q, r) ==
  /\ q.read <= r.read
  /\ q.closed => r.closed /\ r.tail = q.tail /\ (q.buffer = {} => r.buffer = {})

\* A request that was made has a process.
LEMMA RequestHasProcess ==
  ASSUME AnswersInv, NEW t \in Tasks, task[t].kind # "none"
  PROVE  task[t].proc \in 1..started /\ task[t].proc \in Procs
<1>1. task[t].proc \in 1..started
  BY DEF AnswersInv, RequestsAreTrue, Found
<1> QED BY <1>1, ConstantsAssumption DEF AnswersInv, Typed, Procs

\* What a request says of its process stays true as the process goes on.
LEMMA AnsweredForward ==
  ASSUME NEW r, NEW q \in ProcRec, NEW s \in ProcRec, Forward(q, s), Answered(r, q)
  PROVE  Answered(r, s)
<1>1. q.read \in 0..MaxChunks /\ s.read \in 0..MaxChunks
  BY DEF ProcRec
<1>2. q.read <= s.read
  BY DEF Forward
<1>3. 1..q.read \subseteq 1..s.read
  BY <1>1, <1>2, ConstantsAssumption
<1>4. r.got \subseteq 1..q.read => r.got \subseteq 1..s.read
  BY <1>3
<1>5. /\ q.closed => s.closed /\ s.tail = q.tail
      /\ q.closed /\ q.buffer = {} => s.buffer = {}
  BY DEF Forward
<1>6. /\ r.kind \in {"wait", "child", "stop", "subscribe"} /\ Past(r) /\ ~r.left => q.closed
      /\ r.kind = "subscribe" /\ r.pc = "done" => Past(r)
  BY DEF Answered, Past
<1> QED BY <1>4, <1>5, <1>6 DEF Answered

\* The requests that are left alone stay true.
LEMMA RequestsStayTrue ==
  ASSUME AnswersInv, Typed', started <= started',
         \A p \in Procs : Forward(proc[p], proc'[p]),
         \A u \in Tasks :
           \/ task'[u] = task[u]
           \/ /\ Found(task'[u], started')
              /\ task'[u].kind # "none" => Answered(task'[u], proc'[task'[u].proc])
  PROVE  RequestsAreTrue'
<1> SUFFICES ASSUME NEW u \in Tasks, task'[u] = task[u]
             PROVE  /\ Found(task[u], started')
                    /\ task[u].kind # "none" => Answered(task[u], proc'[task[u].proc])
  BY DEF RequestsAreTrue
<1>1. 1..started \subseteq 1..started'
  BY ConstantsAssumption DEF AnswersInv, Typed
<1>2. Found(task[u], started')
  BY <1>1 DEF AnswersInv, RequestsAreTrue, Found
<1>3. ASSUME task[u].kind # "none" PROVE Answered(task[u], proc'[task[u].proc])
  <2>1. task[u].proc \in Procs
    BY <1>3, RequestHasProcess
  <2>2. proc[task[u].proc] \in ProcRec /\ proc'[task[u].proc] \in ProcRec
    BY <2>1 DEF AnswersInv, Typed
  <2> QED BY <1>3, <2>1, <2>2, AnsweredForward DEF AnswersInv, RequestsAreTrue
<1> QED BY <1>2, <1>3

\* A step that takes no output.
LEMMA AnswersStayApart ==
  ASSUME AnswersInv, \A p \in Procs : proc'[p].buffer = proc[p].buffer,
         \A u \in Tasks :
           \/ task'[u] = task[u]
           \/ task'[u].kind \notin {"wait", "child", "stop"}
           \/ task'[u].got = {} /\ task'[u].proc \in Procs
           \/ task'[u].kind = task[u].kind /\ task'[u].proc = task[u].proc /\ task'[u].got = task[u].got
  PROVE  OutputAnsweredOnce'
<1>1. \A u \in Waits' : \/ task'[u].got = {}
                        \/ u \in Waits /\ task'[u].proc = task[u].proc /\ task'[u].got = task[u].got
  BY DEF Waits
<1>2. \A u \in Waits : task[u].proc \in Procs
  BY RequestHasProcess DEF Waits
<1>3. ASSUME NEW u \in Waits' PROVE task'[u].got \cap proc'[task'[u].proc].buffer = {}
  BY <1>1, <1>2 DEF AnswersInv, OutputAnsweredOnce, Of
<1>4. ASSUME NEW u \in Waits', NEW v \in Waits' \ {u}, task'[v].proc = task'[u].proc
      PROVE  task'[v].got \cap task'[u].got = {}
  BY <1>1, <1>4 DEF AnswersInv, OutputAnsweredOnce
<1> QED BY <1>3, <1>4 DEF OutputAnsweredOnce, Of

\* A step that reads and takes no output.
LEMMA OutputStaysKept ==
  ASSUME AnswersInv,
         \A p \in Procs : proc'[p].buffer = proc[p].buffer /\ proc'[p].read = proc[p].read,
         \A u \in Waits : /\ task'[u].kind = task[u].kind
                          /\ task'[u].proc = task[u].proc /\ task'[u].got = task[u].got
  PROVE  OutputKept'
<1>1. \A u \in Waits : u \in Waits'
  BY DEF Waits
<1> QED BY <1>1 DEF AnswersInv, OutputKept

\* A step that makes and tells no news.
LEMMA NewsStaysTrue ==
  ASSUME AnswersInv, \A p \in Procs : proc'[p].news = proc[p].news,
         \A u \in Tasks :
           \/ task'[u] = task[u]
           \/ /\ ~Made(task[u]) /\ ~Made(task'[u])
              /\ task[u].told = {} /\ task'[u].told = {}
           \/ /\ ~Made(task[u]) /\ ~Made(task'[u]) /\ task'[u].told = task[u].told
              /\ task'[u].kind = task[u].kind /\ task'[u].proc = task[u].proc
  PROVE  NewsIsTrue'
<1>1. \A u \in Tasks : task'[u].told = task[u].told
  OBVIOUS
<1>2. \A u \in Tasks : Made(task'[u]) \/ Made(task[u]) => task'[u] = task[u]
  OBVIOUS
<1>3. \A u \in Tasks : task[u].told # {} => task'[u].kind = task[u].kind /\ task'[u].proc = task[u].proc
  OBVIOUS
<1>4. \A u \in Tasks : Made(task[u]) => task[u].proc \in Procs
  BY RequestHasProcess DEF Made
<1>5. NewsIsMade'
  BY <1>2 DEF AnswersInv, NewsIsTrue, NewsIsMade, Typed, ProcRec
<1>6. ToldIsMade'
  <2> SUFFICES ASSUME NEW t \in Tasks, NEW n \in task[t].told
               PROVE  /\ t \in Waits' /\ Made(task'[n]) /\ task'[n].proc = task'[t].proc
                      /\ n \notin proc'[task'[n].proc].news
    BY <1>1 DEF ToldIsMade
  <2>1. /\ t \in Waits /\ Made(task[n]) /\ task[n].proc = task[t].proc
        /\ n \notin proc[task[n].proc].news /\ n \in Tasks
    BY DEF AnswersInv, NewsIsTrue, ToldIsMade, Typed, TaskRec
  <2>2. task'[t].kind = task[t].kind /\ task'[t].proc = task[t].proc /\ task'[n] = task[n]
    BY <1>2, <1>3, <2>1
  <2> QED BY <1>4, <2>1, <2>2 DEF Waits
<1>7. ToldOnce'
  BY <1>1 DEF AnswersInv, NewsIsTrue, ToldOnce
<1>8. MadeIsKnown'
  BY <1>1, <1>2, <1>4 DEF AnswersInv, NewsIsTrue, MadeIsKnown
<1> QED BY <1>5, <1>6, <1>7, <1>8 DEF NewsIsTrue

-----------------------------------------------------------------------------
(* The steps of processes and their readers.                               *)

\* A step of a process that changes neither its news nor its lock.
LEMMA ProcessStepKeeps ==
  ASSUME AnswersInv, NEW p \in Procs, NEW q \in ProcRec, q.tail <= q.read, q.read <= q.written,
         proc' = [proc EXCEPT ![p] = q], UNCHANGED <<started, managed, task>>,
         q.news = proc[p].news, q.patching = proc[p].patching, Forward(proc[p], q), Reader(q)
  PROVE  Typed' /\ RequestsAreTrue' /\ ReadersAreTrue' /\ OneHolder' /\ NewsIsTrue'
<1>1. proc'[p] = q /\ \A o \in Procs : o # p => proc'[o] = proc[o]
  BY DEF AnswersInv, Typed
<1>2. Typed'
  BY <1>1 DEF AnswersInv, Typed
<1>3. \A o \in Procs : Forward(proc[o], proc'[o])
  <2>1. \A o \in Procs : proc[o].read \in Nat
    BY ConstantsAssumption DEF AnswersInv, Typed, ProcRec
  <2> QED BY <1>1, <2>1 DEF Forward
<1>4. RequestsAreTrue'
  BY <1>2, <1>3, RequestsStayTrue, ConstantsAssumption DEF AnswersInv, Typed
<1>5. ReadersAreTrue'
  BY <1>1 DEF AnswersInv, ReadersAreTrue
<1>6. OneHolder'
  BY <1>1 DEF AnswersInv, OneHolder
<1>7. NewsIsTrue'
  BY <1>1, NewsStaysTrue
<1> QED BY <1>2, <1>4, <1>5, <1>6, <1>7

\* The processes of the operating system and the readers of their output.
LEMMA ProcessesKeep ==
  ASSUME AnswersInv, NEW p \in Procs,
         Write(p) \/ Exit(p) \/ Release(p) \/ ReadChunk(p) \/ ReadTail(p) \/ ReaderEnds(p) \/ ReaderFails(p)
  PROVE  AnswersInv'
<1>1. /\ proc[p] \in ProcRec /\ proc[p].tail <= proc[p].read /\ proc[p].read <= proc[p].written
      /\ Reader(proc[p]) /\ proc \in [Procs -> ProcRec]
  BY DEF AnswersInv, Typed, ReadersAreTrue
<1>2. /\ proc[p].written \in 0..MaxChunks /\ proc[p].read \in 0..MaxChunks /\ proc[p].tail \in 0..MaxChunks
      /\ proc[p].buffer \subseteq 1..proc[p].read /\ MaxChunks \in Nat
  BY <1>1, ConstantsAssumption DEF ProcRec, Reader
<1>3. ASSUME NEW q \in ProcRec, q.tail <= q.read, q.read <= q.written,
             proc' = [proc EXCEPT ![p] = q], UNCHANGED <<started, managed, task>>,
             q.news = proc[p].news, q.patching = proc[p].patching, q.buffer = proc[p].buffer,
             q.read = proc[p].read, Forward(proc[p], q), Reader(q)
      PROVE  AnswersInv'
  <2>1. \A o \in Procs : proc'[o].buffer = proc[o].buffer /\ proc'[o].read = proc[o].read
    BY <1>1, <1>3
  <2>2. OutputAnsweredOnce' /\ OutputKept'
    BY <1>3, <2>1, AnswersStayApart, OutputStaysKept
  <2> QED BY <1>3, <2>2, ProcessStepKeeps DEF AnswersInv
<1>4. CASE Write(p)
  <2> DEFINE q == [proc[p] EXCEPT !.written = @ + 1]
  <2>1. q \in ProcRec
    BY <1>1, <1>2, <1>4 DEF ProcRec, Write
  <2>2. q.tail <= q.read /\ q.read <= q.written
    BY <1>1, <1>2 DEF ProcRec
  <2>3. proc' = [proc EXCEPT ![p] = q] /\ UNCHANGED <<started, managed, task>>
    BY <1>1, <1>4 DEF Write
  <2>4. /\ Forward(proc[p], q) /\ Reader(q) /\ q.news = proc[p].news /\ q.patching = proc[p].patching
        /\ q.buffer = proc[p].buffer /\ q.read = proc[p].read
    BY <1>1, <1>2 DEF ProcRec, Forward, Reader
  <2> HIDE DEF q
  <2> QED BY <1>3, <2>1, <2>2, <2>3, <2>4
<1>5. CASE Exit(p)
  <2> PICK held \in BOOLEAN : proc' = [proc EXCEPT ![p].running = FALSE, ![p].open = held]
    BY <1>5 DEF Exit
  <2> DEFINE q == [proc[p] EXCEPT !.running = FALSE, !.open = held]
  <2>1. q \in ProcRec
    BY <1>1 DEF ProcRec
  <2>2. q.tail <= q.read /\ q.read <= q.written
    BY <1>1 DEF ProcRec
  <2>3. proc' = [proc EXCEPT ![p] = q] /\ UNCHANGED <<started, managed, task>>
    BY <1>1, <1>5 DEF Exit
  <2>4. /\ Forward(proc[p], q) /\ Reader(q) /\ q.news = proc[p].news /\ q.patching = proc[p].patching
        /\ q.buffer = proc[p].buffer /\ q.read = proc[p].read
    BY <1>1, <1>2 DEF ProcRec, Forward, Reader
  <2> HIDE DEF q
  <2> QED BY <1>3, <2>1, <2>2, <2>3, <2>4
<1>6. CASE Release(p)
  <2> DEFINE q == [proc[p] EXCEPT !.open = FALSE]
  <2>1. q \in ProcRec
    BY <1>1, <1>2, <1>6 DEF ProcRec, Release
  <2>2. q.tail <= q.read /\ q.read <= q.written
    BY <1>1, <1>2 DEF ProcRec
  <2>3. proc' = [proc EXCEPT ![p] = q] /\ UNCHANGED <<started, managed, task>>
    BY <1>1, <1>6 DEF Release
  <2>4. /\ Forward(proc[p], q) /\ Reader(q) /\ q.news = proc[p].news /\ q.patching = proc[p].patching
        /\ q.buffer = proc[p].buffer /\ q.read = proc[p].read
    BY <1>1, <1>2 DEF ProcRec, Forward, Reader
  <2> HIDE DEF q
  <2> QED BY <1>3, <2>1, <2>2, <2>3, <2>4
<1>7. CASE ReadTail(p)
  <2> DEFINE q == [proc[p] EXCEPT !.tail = proc[p].read]
  <2>1. q \in ProcRec
    BY <1>1, <1>2, <1>7 DEF ProcRec, ReadTail
  <2>2. q.tail <= q.read /\ q.read <= q.written
    BY <1>1, <1>2 DEF ProcRec
  <2>3. proc' = [proc EXCEPT ![p] = q] /\ UNCHANGED <<started, managed, task>>
    BY <1>1, <1>7 DEF ReadTail
  <2>4. /\ Forward(proc[p], q) /\ Reader(q) /\ q.news = proc[p].news /\ q.patching = proc[p].patching
        /\ q.buffer = proc[p].buffer /\ q.read = proc[p].read
    BY <1>1, <1>2, <1>7 DEF ProcRec, Forward, Reader, ReadTail
  <2> HIDE DEF q
  <2> QED BY <1>3, <2>1, <2>2, <2>3, <2>4
<1>8. CASE ReaderEnds(p)
  <2> DEFINE q == [proc[p] EXCEPT !.closed = TRUE]
  <2>1. q \in ProcRec
    BY <1>1, <1>2, <1>8 DEF ProcRec, ReaderEnds
  <2>2. q.tail <= q.read /\ q.read <= q.written
    BY <1>1, <1>2 DEF ProcRec
  <2>3. proc' = [proc EXCEPT ![p] = q] /\ UNCHANGED <<started, managed, task>>
    BY <1>1, <1>8 DEF ReaderEnds
  <2>4. /\ Forward(proc[p], q) /\ Reader(q) /\ q.news = proc[p].news /\ q.patching = proc[p].patching
        /\ q.buffer = proc[p].buffer /\ q.read = proc[p].read
    BY <1>1, <1>2, <1>8 DEF ProcRec, Forward, Reader, ReaderEnds
  <2> HIDE DEF q
  <2> QED BY <1>3, <2>1, <2>2, <2>3, <2>4
<1>9. CASE ReaderFails(p)
  <2> DEFINE q == [proc[p] EXCEPT !.closed = TRUE]
  <2>1. q \in ProcRec
    BY <1>1, <1>2, <1>9 DEF ProcRec, ReaderFails
  <2>2. q.tail <= q.read /\ q.read <= q.written
    BY <1>1, <1>2 DEF ProcRec
  <2>3. proc' = [proc EXCEPT ![p] = q] /\ UNCHANGED <<started, managed, task>>
    BY <1>1, <1>9 DEF ReaderFails
  <2>4. /\ Forward(proc[p], q) /\ Reader(q) /\ q.news = proc[p].news /\ q.patching = proc[p].patching
        /\ q.buffer = proc[p].buffer /\ q.read = proc[p].read
    BY <1>1, <1>2, <1>9 DEF ProcRec, Forward, Reader, ReaderFails
  <2> HIDE DEF q
  <2> QED BY <1>3, <2>1, <2>2, <2>3, <2>4
<1>10. CASE ReadChunk(p)
  <2> DEFINE n == proc[p].read + 1
             q == [proc[p] EXCEPT !.read = n, !.buffer = @ \cup {n}]
  <2>1. n \in 1..MaxChunks /\ n <= proc[p].written /\ ~proc[p].closed
    BY <1>1, <1>2, <1>10 DEF ReadChunk, ProcRec
  <2>8. proc[p].buffer \cup {n} \in SUBSET (1..MaxChunks) /\ n \in 0..MaxChunks
    BY <1>1, <1>2, <2>1 DEF ProcRec
  <2>2. q \in ProcRec
    BY <1>1, <2>8 DEF ProcRec
  <2>3. q.tail <= q.read /\ q.read <= q.written
    BY <1>1, <1>2, <2>1 DEF ProcRec
  <2>4. proc' = [proc EXCEPT ![p] = q] /\ UNCHANGED <<started, managed, task>>
    BY <1>1, <1>10 DEF ReadChunk
  <2>5. /\ Forward(proc[p], q) /\ q.news = proc[p].news /\ q.patching = proc[p].patching
        /\ q.buffer = proc[p].buffer \cup {n} /\ q.read = n /\ q.closed = proc[p].closed
    BY <1>1, <1>2, <2>1 DEF ProcRec, Forward
  <2> HIDE DEF q
  <2>6. Reader(q)
    BY <1>2, <2>1, <2>5 DEF Reader
  <2>7. OutputAnsweredOnce'
    <3>1. proc'[p] = q /\ \A o \in Procs : o # p => proc'[o] = proc[o]
      BY <1>1, <2>4
    <3>2. \A u \in Waits : task[u].proc \in Procs /\ task[u].got \subseteq 1..proc[task[u].proc].read
      BY RequestHasProcess DEF Waits, AnswersInv, RequestsAreTrue, Answered
    <3>3. n \notin 1..proc[p].read
      BY <1>2
    <3>4. \A u \in Waits : task[u].got \cap proc'[task[u].proc].buffer = {}
      BY <2>5, <3>1, <3>2, <3>3 DEF AnswersInv, OutputAnsweredOnce, Of
    <3> QED BY <2>4, <3>4 DEF AnswersInv, OutputAnsweredOnce, Waits, Of
  <2>9. OutputKept'
    <3>1. proc'[p] = q /\ \A o \in Procs : o # p => proc'[o] = proc[o]
      BY <1>1, <2>4
    <3>2. 1..n \subseteq 1..proc[p].read \cup {n}
      BY <1>2
    <3>3. ASSUME NEW o \in Procs, NEW c \in 1..proc'[o].read
          PROVE  \/ c \in proc'[o].buffer
                 \/ c \in 1..proc[o].read /\ (c \in proc[o].buffer => c \in proc'[o].buffer)
      BY <2>5, <3>1, <3>2
    <3>4. Waits' = Waits /\ \A u \in Waits : task'[u] = task[u]
      BY <2>4 DEF Waits
    <3> QED BY <3>3, <3>4 DEF AnswersInv, OutputKept
  <2> QED BY <2>2, <2>3, <2>4, <2>5, <2>6, <2>7, <2>9, ProcessStepKeeps DEF AnswersInv
<1> QED BY <1>4, <1>5, <1>6, <1>7, <1>8, <1>9, <1>10

-----------------------------------------------------------------------------
(* The steps of requests.                                                  *)

\* A step of a request that only changes what it knows, and who has the handles.
LEMMA RequestStepKeeps ==
  ASSUME AnswersInv, NEW t \in Tasks, NEW r, task' = [task EXCEPT ![t] = r], proc' = proc,
         started <= started', started' \in 0..MaxProcs, managed' \in [Handles -> 0..started'],
         r \in TaskRec(started'), Found(r, started'),
         r.kind # "none" => Answered(r, proc[r.proc]),
         task[t].told = {}, r.told = {}, ~Made(task[t]), ~Made(r),
         \/ /\ task[t].kind \notin {"wait", "child", "stop"}
            /\ r.kind \notin {"wait", "child", "stop"} \/ (r.got = {} /\ r.proc \in Procs)
         \/ r.kind = task[t].kind /\ r.proc = task[t].proc /\ r.got = task[t].got
  PROVE  AnswersInv'
<1>1. task'[t] = r /\ \A u \in Tasks : u # t => task'[u] = task[u]
  BY DEF AnswersInv, Typed
<1>2. Typed'
  <2>1. \A u \in Tasks : task[u] \in TaskRec(started')
    <3>1. 0..started \subseteq 0..started'
      BY ConstantsAssumption DEF AnswersInv, Typed
    <3> QED BY <3>1 DEF AnswersInv, Typed, TaskRec
  <2>2. task' \in [Tasks -> TaskRec(started')]
    BY <2>1 DEF AnswersInv, Typed
  <2> QED BY <2>2 DEF AnswersInv, Typed
<1>3. \A p \in Procs : Forward(proc[p], proc'[p])
  <2>1. \A p \in Procs : proc[p].read \in Nat
    BY ConstantsAssumption DEF AnswersInv, Typed, ProcRec
  <2> QED BY <2>1 DEF Forward
<1>4. RequestsAreTrue'
  BY <1>1, <1>2, <1>3, RequestsStayTrue
<1>5. OutputAnsweredOnce'
  BY <1>1, AnswersStayApart
<1>6. OutputKept'
  <2>1. \A u \in Waits : /\ task'[u].kind = task[u].kind
                         /\ task'[u].proc = task[u].proc /\ task'[u].got = task[u].got
    BY <1>1 DEF Waits
  <2> QED BY <2>1, OutputStaysKept
<1>7. NewsIsTrue'
  BY <1>1, NewsStaysTrue
<1> QED BY <1>2, <1>4, <1>5, <1>6, <1>7 DEF AnswersInv, ReadersAreTrue, OneHolder

\* The loops of waits and subscriptions, and the ends of requests that answer
\* without the process.
LEMMA LoopsKeep ==
  ASSUME AnswersInv, NEW t \in Tasks, NEW h,
         LookAtWaited(t) \/ LookAtSubscribed(t) \/ SeeExit(t) \/ GiveUp(t) \/ Finish(t) \/ GiveUpReader(t)
           \/ SendLast(t) \/ Remove(t) \/ Disconnect(t) \/ SpawnStart(t, h) \/ SpawnRefused(t, h)
  PROVE  AnswersInv'
<1>1. /\ task[t].pc \notin {"new", "done"}
      /\ task[t].kind # "none" /\ task[t].told = {} /\ ~Made(task[t])
      /\ task[t] \in TaskRec(started) /\ Found(task[t], started)
  <2>1. task[t].pc \notin {"new", "done"}
    BY DEF LookAtWaited, LookAtSubscribed, SeeExit, GiveUp, Finish, GiveUpReader, SendLast, Remove, Disconnect, Active,
           SpawnStart, SpawnRefused
  <2> QED BY <2>1 DEF AnswersInv, Typed, RequestsAreTrue, Found, KindFits, Made
<1>2. /\ task[t].proc \in Procs /\ Answered(task[t], proc[task[t].proc])
      /\ proc[task[t].proc] \in ProcRec /\ Reader(proc[task[t].proc])
  BY <1>1, RequestHasProcess DEF AnswersInv, RequestsAreTrue, Typed, ReadersAreTrue
<1>3. started <= started /\ started \in 0..MaxProcs /\ managed \in [Handles -> 0..started]
  BY ConstantsAssumption DEF AnswersInv, Typed
<1>4. ASSUME NEW r \in TaskRec(started), task' = [task EXCEPT ![t] = r], UNCHANGED <<started, proc, managed>>,
             Found(r, started), Answered(r, proc[r.proc]), r.told = {}, ~Made(r),
             r.kind = task[t].kind, r.proc = task[t].proc, r.got = task[t].got
      PROVE  AnswersInv'
  BY <1>1, <1>3, <1>4, RequestStepKeeps
<1>5. CASE LookAtWaited(t)
  <2>0. task[t].kind \in {"wait", "child"} /\ task[t].pc = "look"
    BY <1>5 DEF LookAtWaited
  <2>1. CASE Goto(t, "collect")
    <3> DEFINE r == [task[t] EXCEPT !.pc = "collect"]
    <3>1. r \in TaskRec(started) /\ task' = [task EXCEPT ![t] = r] /\ UNCHANGED <<started, proc, managed>>
      BY <1>1, <1>5, <2>1 DEF LookAtWaited, Goto, TaskRec, AnswersInv, Typed
    <3>2. /\ Found(r, started) /\ Answered(r, proc[r.proc]) /\ r.told = {} /\ ~Made(r)
          /\ r.kind = task[t].kind /\ r.proc = task[t].proc /\ r.got = task[t].got
      BY <1>1, <1>2, <2>0 DEF TaskRec, Found, KindFits, Answered, Past, Made
    <3> HIDE DEF r
    <3> QED BY <1>4, <3>1, <3>2
  <2>2. CASE task' = [task EXCEPT ![t].pc = "report", ![t].answer = "running"]
    <3> DEFINE r == [task[t] EXCEPT !.pc = "report", !.answer = "running"]
    <3>1. r \in TaskRec(started) /\ task' = [task EXCEPT ![t] = r] /\ UNCHANGED <<started, proc, managed>>
      BY <1>1, <1>5, <2>2 DEF LookAtWaited, TaskRec, AnswersInv, Typed
    <3>2. /\ Found(r, started) /\ Answered(r, proc[r.proc]) /\ r.told = {} /\ ~Made(r)
          /\ r.kind = task[t].kind /\ r.proc = task[t].proc /\ r.got = task[t].got
      BY <1>1, <1>2, <2>0 DEF TaskRec, Found, KindFits, Answered, Past, Made
    <3> HIDE DEF r
    <3> QED BY <1>4, <3>1, <3>2
  <2> QED BY <1>5, <2>1, <2>2 DEF LookAtWaited
<1>6. CASE SeeExit(t)
  <2> DEFINE r == [task[t] EXCEPT !.pc = "finish"]
  <2>1. task[t].kind \in {"wait", "child", "subscribe", "stop"} /\ task[t].pc \in {"look", "await"}
    BY <1>1, <1>6 DEF SeeExit, Found, KindFits, TaskRec
  <2>2. r \in TaskRec(started) /\ task' = [task EXCEPT ![t] = r] /\ UNCHANGED <<started, proc, managed>>
    BY <1>1, <1>6 DEF SeeExit, Goto, TaskRec, AnswersInv, Typed
  <2>3. /\ Found(r, started) /\ Answered(r, proc[r.proc]) /\ r.told = {} /\ ~Made(r)
        /\ r.kind = task[t].kind /\ r.proc = task[t].proc /\ r.got = task[t].got
    BY <1>1, <1>2, <2>1 DEF TaskRec, Found, KindFits, Answered, Past, Made
  <2> HIDE DEF r
  <2> QED BY <1>4, <2>2, <2>3
<1>7. CASE GiveUp(t)
  <2> DEFINE r == [task[t] EXCEPT !.pc = "done", !.answer = "failed"]
  <2>1. task[t].kind \in {"stop"}
    BY <1>1, <1>7 DEF GiveUp, Found, KindFits, TaskRec
  <2>2. r \in TaskRec(started) /\ task' = [task EXCEPT ![t] = r] /\ UNCHANGED <<started, proc, managed>>
    BY <1>1, <1>7 DEF GiveUp, TaskRec, AnswersInv, Typed
  <2>3. /\ Found(r, started) /\ Answered(r, proc[r.proc]) /\ r.told = {} /\ ~Made(r)
        /\ r.kind = task[t].kind /\ r.proc = task[t].proc /\ r.got = task[t].got
    BY <1>1, <1>2, <2>1 DEF TaskRec, Found, KindFits, Answered, Past, Made
  <2> HIDE DEF r
  <2> QED BY <1>4, <2>2, <2>3
<1>8. CASE Disconnect(t)
  <2> DEFINE r == [task[t] EXCEPT !.pc = "done", !.answer = "failed"]
  <2>1. task[t].kind \in {"child"}
    BY <1>1, <1>8 DEF Disconnect, Found, KindFits, TaskRec
  <2>2. r \in TaskRec(started) /\ task' = [task EXCEPT ![t] = r] /\ UNCHANGED <<started, proc, managed>>
    BY <1>1, <1>8 DEF Disconnect, TaskRec, AnswersInv, Typed
  <2>3. /\ Found(r, started) /\ Answered(r, proc[r.proc]) /\ r.told = {} /\ ~Made(r)
        /\ r.kind = task[t].kind /\ r.proc = task[t].proc /\ r.got = task[t].got
    BY <1>1, <1>2, <2>1 DEF TaskRec, Found, KindFits, Answered, Past, Made
  <2> HIDE DEF r
  <2> QED BY <1>4, <2>2, <2>3
<1>9. CASE SpawnRefused(t, h)
  <2> DEFINE r == [task[t] EXCEPT !.pc = "done", !.answer = "failed"]
  <2>1. task[t].kind \in {"spawn"}
    BY <1>1, <1>9 DEF SpawnRefused, Found, KindFits, TaskRec
  <2>2. r \in TaskRec(started) /\ task' = [task EXCEPT ![t] = r] /\ UNCHANGED <<started, proc, managed>>
    BY <1>1, <1>9 DEF SpawnRefused, TaskRec, AnswersInv, Typed
  <2>3. /\ Found(r, started) /\ Answered(r, proc[r.proc]) /\ r.told = {} /\ ~Made(r)
        /\ r.kind = task[t].kind /\ r.proc = task[t].proc /\ r.got = task[t].got
    BY <1>1, <1>2, <2>1 DEF TaskRec, Found, KindFits, Answered, Past, Made
  <2> HIDE DEF r
  <2> QED BY <1>4, <2>2, <2>3
<1>10. CASE Finish(t)
  <2> DEFINE r == [task[t] EXCEPT !.pc = AfterOutput(t)]
  <2>1. /\ task[t].pc = "finish" /\ task[t].kind \in {"wait", "child", "stop", "subscribe"}
        /\ task[t].answer = "none" /\ proc[task[t].proc].closed
    BY <1>1, <1>10 DEF Finish, Found, KindFits, Of
  <2>2. /\ task[t].kind = "stop" => AfterOutput(t) = "lock"
        /\ task[t].kind = "subscribe" => AfterOutput(t) = "last"
        /\ task[t].kind \in {"wait", "child"} => AfterOutput(t) = "drain"
    BY DEF AfterOutput
  <2>3. r \in TaskRec(started) /\ task' = [task EXCEPT ![t] = r] /\ UNCHANGED <<started, proc, managed>>
    BY <1>1, <1>10, <2>1, <2>2 DEF Finish, Goto, TaskRec, AnswersInv, Typed
  <2>4. /\ Found(r, started) /\ Answered(r, proc[r.proc]) /\ r.told = {} /\ ~Made(r)
        /\ r.kind = task[t].kind /\ r.proc = task[t].proc /\ r.got = task[t].got
    BY <1>1, <1>2, <2>1, <2>2 DEF TaskRec, Found, KindFits, Answered, Past, Made
  <2> HIDE DEF r
  <2> QED BY <1>4, <2>3, <2>4
<1>15. CASE GiveUpReader(t)
  <2> DEFINE r == [task[t] EXCEPT !.pc = AfterOutput(t), !.left = TRUE]
  <2>1. /\ task[t].pc = "finish" /\ task[t].kind \in {"wait", "child", "stop", "subscribe"}
        /\ task[t].answer = "none"
    BY <1>1, <1>15 DEF GiveUpReader, Found, KindFits
  <2>2. /\ task[t].kind = "stop" => AfterOutput(t) = "lock"
        /\ task[t].kind = "subscribe" => AfterOutput(t) = "last"
        /\ task[t].kind \in {"wait", "child"} => AfterOutput(t) = "drain"
    BY DEF AfterOutput
  <2>3. r \in TaskRec(started) /\ task' = [task EXCEPT ![t] = r] /\ UNCHANGED <<started, proc, managed>>
    BY <1>1, <1>15, <2>1, <2>2 DEF GiveUpReader, TaskRec, AnswersInv, Typed
  <2>4. /\ Found(r, started) /\ Answered(r, proc[r.proc]) /\ r.told = {} /\ ~Made(r)
        /\ r.kind = task[t].kind /\ r.proc = task[t].proc /\ r.got = task[t].got
    BY <1>1, <1>2, <2>1, <2>2 DEF TaskRec, Found, KindFits, Answered, Past, Made
  <2> HIDE DEF r
  <2> QED BY <1>4, <2>3, <2>4
<1>11. CASE LookAtSubscribed(t)
  <2> DEFINE r == [task[t] EXCEPT !.got = 1..proc[task[t].proc].tail]
  <2>1. task[t].kind = "subscribe" /\ task[t].pc = "look"
    BY <1>11 DEF LookAtSubscribed
  <2>2. 1..proc[task[t].proc].tail \subseteq 1..MaxChunks
    BY <1>2, ConstantsAssumption DEF ProcRec
  <2>3. r \in TaskRec(started) /\ task' = [task EXCEPT ![t] = r] /\ UNCHANGED <<started, proc, managed>>
    BY <1>1, <1>11, <2>2 DEF LookAtSubscribed, TaskRec, AnswersInv, Typed, Of
  <2>4. /\ Found(r, started) /\ Answered(r, proc[r.proc]) /\ r.told = {} /\ ~Made(r)
        /\ r.kind = "subscribe"
    BY <1>1, <1>2, <2>1 DEF TaskRec, Found, KindFits, Answered, Past, Made
  <2> HIDE DEF r
  <2> QED BY <1>1, <1>3, <2>1, <2>3, <2>4, RequestStepKeeps
<1>12. CASE SendLast(t)
  <2> DEFINE r == [task[t] EXCEPT !.got = 1..proc[task[t].proc].tail, !.pc = "done", !.answer = "finished"]
  <2>1. /\ task[t].kind = "subscribe" /\ task[t].pc = "last"
        /\ ~task[t].left => proc[task[t].proc].closed
    BY <1>1, <1>2, <1>12 DEF SendLast, Found, KindFits, Answered, Past
  <2>2. 1..proc[task[t].proc].tail \subseteq 1..MaxChunks
    BY <1>2, ConstantsAssumption DEF ProcRec
  <2>3. r \in TaskRec(started) /\ task' = [task EXCEPT ![t] = r] /\ UNCHANGED <<started, proc, managed>>
    BY <1>1, <1>12, <2>2 DEF SendLast, TaskRec, AnswersInv, Typed, Of
  <2>4. /\ Found(r, started) /\ Answered(r, proc[r.proc]) /\ r.told = {} /\ ~Made(r)
        /\ r.kind = "subscribe"
    BY <1>1, <1>2, <2>1 DEF TaskRec, Found, KindFits, Answered, Past, Made
  <2> HIDE DEF r
  <2> QED BY <1>1, <1>3, <2>1, <2>3, <2>4, RequestStepKeeps
<1>13. CASE Remove(t)
  <2> DEFINE r == [task[t] EXCEPT !.pc = "report",
                                  !.answer = IF task[t].kind = "stop" THEN "stopped" ELSE "finished"]
  <2>1. task[t].kind \in {"wait", "child", "stop"} /\ task[t].pc = "remove"
    BY <1>1, <1>13 DEF Remove, Found, KindFits
  <2>2. r \in TaskRec(started) /\ task' = [task EXCEPT ![t] = r] /\ UNCHANGED <<started, proc>>
    BY <1>1, <1>13 DEF Remove, TaskRec, AnswersInv, Typed
  <2>3. managed' \in [Handles -> 0..started]
    <3>1. started \in Nat /\ 0 \in 0..started
      BY <1>3, ConstantsAssumption
    <3> QED BY <1>3, <1>13, <3>1 DEF Remove
  <2>4. /\ Found(r, started) /\ Answered(r, proc[r.proc]) /\ r.told = {} /\ ~Made(r)
        /\ r.kind = task[t].kind /\ r.proc = task[t].proc /\ r.got = task[t].got
    BY <1>1, <1>2, <2>1 DEF TaskRec, Found, KindFits, Answered, Past, Made
  <2> HIDE DEF r
  <2> QED BY <1>1, <1>3, <2>2, <2>3, <2>4, RequestStepKeeps
<1>14. CASE SpawnStart(t, h)
  <2> DEFINE r == [task[t] EXCEPT !.child = started + 1, !.pc = "push"]
  <2>1. /\ task[t].kind = "spawn" /\ task[t].pc = "start" /\ task[t].answer = "none"
        /\ started < MaxProcs /\ started' = started + 1 /\ proc' = proc
    BY <1>1, <1>14 DEF SpawnStart, Found, KindFits
  <2>2. /\ started \in Nat /\ MaxProcs \in Nat /\ started' \in 0..MaxProcs /\ started <= started'
        /\ 0..started \subseteq 0..started' /\ started' \in 0..started'
    BY <1>3, <2>1, ConstantsAssumption
  <2>3. r \in TaskRec(started') /\ task' = [task EXCEPT ![t] = r]
    BY <1>1, <1>14, <2>1, <2>2 DEF SpawnStart, TaskRec, AnswersInv, Typed
  <2>4. managed' \in [Handles -> 0..started']
    BY <1>3, <1>14, <2>2 DEF SpawnStart
  <2>5. /\ Found(r, started') /\ Answered(r, proc[r.proc]) /\ r.told = {} /\ ~Made(r)
        /\ r.kind = "spawn"
    BY <1>1, <1>2, <2>1, <2>2 DEF TaskRec, Found, KindFits, Answered, Past, Made
  <2> HIDE DEF r
  <2> QED BY <1>1, <2>1, <2>2, <2>3, <2>4, <2>5, RequestStepKeeps
<1> QED BY <1>5, <1>6, <1>7, <1>8, <1>9, <1>10, <1>11, <1>12, <1>13, <1>14, <1>15

\* A step of a request t that also changes its process p.
LEMMA BothStepsKeep ==
  ASSUME AnswersInv, NEW t \in Tasks, NEW p \in Procs, NEW r \in TaskRec(started), NEW q \in ProcRec,
         task' = [task EXCEPT ![t] = r], proc' = [proc EXCEPT ![p] = q], UNCHANGED <<started, managed>>,
         q.tail = proc[p].tail, q.read = proc[p].read, q.written = proc[p].written,
         q.closed = proc[p].closed, q.buffer \in {proc[p].buffer, {}},
         \A a, b \in q.patching : a = b,
         Found(r, started), r.proc = p, Answered(r, q)
  PROVE  /\ Typed' /\ RequestsAreTrue' /\ ReadersAreTrue' /\ OneHolder'
         /\ task'[t] = r /\ \A u \in Tasks : u # t => task'[u] = task[u]
         /\ proc'[p] = q /\ \A o \in Procs : o # p => proc'[o] = proc[o]
<1>1. /\ task'[t] = r /\ \A u \in Tasks : u # t => task'[u] = task[u]
      /\ proc'[p] = q /\ \A o \in Procs : o # p => proc'[o] = proc[o]
  BY DEF AnswersInv, Typed
<1>2. Typed'
  BY <1>1 DEF AnswersInv, Typed
<1>3. \A o \in Procs : Forward(proc[o], proc'[o])
  <2>1. \A o \in Procs : proc[o].read \in Nat
    BY ConstantsAssumption DEF AnswersInv, Typed, ProcRec
  <2> QED BY <1>1, <2>1 DEF Forward
<1>4. started <= started'
  BY ConstantsAssumption DEF AnswersInv, Typed
<1>5. RequestsAreTrue'
  BY <1>1, <1>2, <1>3, <1>4, RequestsStayTrue
<1>6. Reader(q)
  BY DEF AnswersInv, ReadersAreTrue, Reader
<1>7. ReadersAreTrue'
  BY <1>1, <1>6 DEF AnswersInv, ReadersAreTrue
<1>8. OneHolder'
  BY <1>1 DEF AnswersInv, OneHolder
<1> QED BY <1>1, <1>2, <1>5, <1>7, <1>8

\* A request that begins finds the process of its handle.
LEMMA BeginKeeps ==
  ASSUME AnswersInv, NEW t \in Tasks, NEW kind \in Kinds, NEW h \in Handles, Begin(t, kind, h)
  PROVE  AnswersInv'
<1> DEFINE p == managed[h]
           Asked(pc) == [NewTask EXCEPT !.kind = kind, !.pc = pc, !.handle = h, !.proc = p]
<1>1. /\ task[t].pc = "new" /\ p \in 1..started /\ p \in Procs
      /\ task[t] \in TaskRec(started) /\ proc[p] \in ProcRec
  <2>1. p \in 0..started /\ p # 0 /\ started \in 0..MaxProcs
    BY DEF Begin, AnswersInv, Typed
  <2>2. p \in 1..started /\ p \in Procs
    BY <2>1, ConstantsAssumption DEF Procs
  <2> QED BY <2>2 DEF Begin, AnswersInv, Typed
<1>2. \E pc \in {"collect", "await", "start", "lock", "look"} :
        /\ KindFits(pc, kind) /\ task' = [task EXCEPT ![t] = Asked(pc)]
        /\ pc = "lock" => kind = "patch"
  <2> DEFINE first == [wait |-> "collect", child |-> "collect", stop |-> "await",
                       spawn |-> "start", patch |-> "lock", subscribe |-> "look"]
  <2>1. kind \in {"wait", "child", "stop", "spawn", "patch", "subscribe"}
    BY ConstantsAssumption
  <2>2. /\ first["wait"] = "collect" /\ first["child"] = "collect" /\ first["stop"] = "await"
        /\ first["spawn"] = "start" /\ first["patch"] = "lock" /\ first["subscribe"] = "look"
    OBVIOUS
  <2>3. task' = [task EXCEPT ![t] = Asked(first[kind])]
    BY DEF Begin
  <2> HIDE DEF first
  <2>4. first[kind] \in {"collect", "await", "start", "lock", "look"}
    BY <2>1, <2>2
  <2>5. KindFits(first[kind], kind) /\ (first[kind] = "lock" => kind = "patch")
    BY <2>1, <2>2 DEF KindFits
  <2> QED BY <2>3, <2>4, <2>5
<1> PICK pc \in {"collect", "await", "start", "lock", "look"} :
        /\ KindFits(pc, kind) /\ task' = [task EXCEPT ![t] = Asked(pc)]
        /\ pc = "lock" => kind = "patch"
  BY <1>2
<1> DEFINE r == Asked(pc)
<1>3. task' = [task EXCEPT ![t] = r]
  OBVIOUS
<1>4. UNCHANGED <<started, proc, managed>>
  BY DEF Begin
<1>5. r \in TaskRec(started)
  <2>1. 0 \in 0..started /\ p \in 0..started
    BY <1>1, ConstantsAssumption DEF AnswersInv, Typed
  <2> QED BY <1>1, <2>1 DEF NewTask, TaskRec
<1>6. /\ r.kind = kind /\ r.pc = pc /\ r.proc = p /\ r.told = {} /\ r.got = {} /\ r.answer = "none"
  BY DEF NewTask
<1>7. task[t].kind = "none" /\ task[t].told = {} /\ ~Made(task[t])
  BY <1>1 DEF Made, AnswersInv, RequestsAreTrue, Found, KindFits
<1> HIDE DEF r, p, Asked
<1>8. Found(r, started) /\ Answered(r, proc[r.proc]) /\ ~Made(r)
  BY <1>1, <1>6 DEF Found, Made, Answered, Past, KindFits
<1>9. started <= started /\ started \in 0..MaxProcs /\ managed \in [Handles -> 0..started]
  BY ConstantsAssumption DEF AnswersInv, Typed
<1> QED BY <1>1, <1>3, <1>4, <1>5, <1>6, <1>7, <1>8, <1>9, RequestStepKeeps

\* A request that is at work, and its process.
LEMMA AtWork ==
  ASSUME AnswersInv, NEW t \in Tasks, task[t].pc \notin {"new", "done"}
  PROVE  /\ task[t].kind # "none" /\ task[t].told = {} /\ ~Made(task[t])
         /\ task[t] \in TaskRec(started) /\ Found(task[t], started)
         /\ task[t].proc \in Procs /\ Answered(task[t], proc[task[t].proc])
         /\ proc[task[t].proc] \in ProcRec /\ Reader(proc[task[t].proc])
         /\ \A a, b \in proc[task[t].proc].patching : a = b
<1>1. /\ task[t].kind # "none" /\ task[t].told = {} /\ ~Made(task[t])
      /\ task[t] \in TaskRec(started) /\ Found(task[t], started)
  BY DEF AnswersInv, Typed, RequestsAreTrue, Found, KindFits, Made
<1>2. /\ task[t].proc \in Procs /\ Answered(task[t], proc[task[t].proc])
      /\ proc[task[t].proc] \in ProcRec /\ Reader(proc[task[t].proc])
  BY <1>1, RequestHasProcess DEF AnswersInv, RequestsAreTrue, Typed, ReadersAreTrue
<1> QED BY <1>1, <1>2 DEF AnswersInv, OneHolder

\* A request that waits for its process ends the reader of its output.
LEMMA ShutDownKeeps ==
  ASSUME AnswersInv, NEW t \in Tasks, ShutDown(t)
  PROVE  AnswersInv'
<1> DEFINE p == task[t].proc
           q == [proc[p] EXCEPT !.shutdown = TRUE]
<1>1. p \in Procs /\ proc[p] \in ProcRec /\ Reader(proc[p]) /\ ~proc[p].closed
  BY AtWork DEF ShutDown, Of
<1>2. proc' = [proc EXCEPT ![p] = q] /\ UNCHANGED <<started, managed, task>>
  BY <1>1 DEF ShutDown, AnswersInv, Typed
<1>3. /\ q \in ProcRec /\ q.tail = proc[p].tail /\ q.read = proc[p].read /\ q.written = proc[p].written
      /\ q.closed = proc[p].closed /\ q.buffer = proc[p].buffer /\ q.patching = proc[p].patching
      /\ q.news = proc[p].news
  BY <1>1 DEF ProcRec
<1> HIDE DEF p, q
<1>4. /\ q.tail <= q.read /\ q.read <= q.written
      /\ proc[p].read \in Nat
  BY <1>1, <1>3, ConstantsAssumption DEF AnswersInv, Typed, ProcRec
<1>5. Forward(proc[p], q) /\ Reader(q)
  BY <1>1, <1>3, <1>4 DEF Forward, Reader
<1>6. Typed' /\ RequestsAreTrue' /\ ReadersAreTrue' /\ OneHolder' /\ NewsIsTrue'
  BY <1>1, <1>2, <1>3, <1>4, <1>5, ProcessStepKeeps
<1>7. \A o \in Procs : proc'[o].buffer = proc[o].buffer /\ proc'[o].read = proc[o].read
  BY <1>1, <1>2, <1>3 DEF AnswersInv, Typed
<1>8. OutputAnsweredOnce' /\ OutputKept'
  BY <1>2, <1>7, AnswersStayApart, OutputStaysKept
<1> QED BY <1>6, <1>8 DEF AnswersInv

\* The Controller starts a process.
LEMMA StartKeeps ==
  ASSUME AnswersInv, NEW h \in Handles, Start(h)
  PROVE  AnswersInv'
<1>1. /\ started' = started + 1 /\ UNCHANGED <<proc, task>>
      /\ started \in Nat /\ MaxProcs \in Nat /\ started < MaxProcs
      /\ managed' = [managed EXCEPT ![h] = started + 1] /\ managed \in [Handles -> 0..started]
  BY ConstantsAssumption DEF Start, AnswersInv, Typed
<1>2. /\ 0..started \subseteq 0..started' /\ started' \in 0..started' /\ started <= started'
      /\ started' \in 0..MaxProcs
  BY <1>1
<1>3. Typed'
  <2>1. managed' \in [Handles -> 0..started']
    BY <1>1, <1>2
  <2>2. task \in [Tasks -> TaskRec(started')]
    BY <1>2 DEF AnswersInv, Typed, TaskRec
  <2> QED BY <1>1, <1>2, <2>1, <2>2 DEF AnswersInv, Typed
<1>4. \A p \in Procs : Forward(proc[p], proc'[p])
  <2>1. \A p \in Procs : proc[p].read \in Nat
    BY ConstantsAssumption DEF AnswersInv, Typed, ProcRec
  <2> QED BY <1>1, <2>1 DEF Forward
<1>5. RequestsAreTrue'
  BY <1>1, <1>2, <1>3, <1>4, RequestsStayTrue
<1>6. OutputAnsweredOnce' /\ OutputKept' /\ NewsIsTrue'
  BY <1>1, AnswersStayApart, OutputStaysKept, NewsStaysTrue
<1> QED BY <1>1, <1>3, <1>5, <1>6 DEF AnswersInv, ReadersAreTrue, OneHolder

\* A request that takes the output buffered since it was last taken.
LEMMA TakeKeeps ==
  ASSUME AnswersInv, NEW t \in Tasks, Collect(t) \/ Drain(t)
  PROVE  AnswersInv'
<1> DEFINE p == task[t].proc
<1>1. PICK next \in {"look", "remove"} :
        /\ Take(t, next)
        /\ next = "look" => task[t].pc = "collect"
        /\ next = "remove" => task[t].pc = "drain"
  BY DEF Collect, Drain
<1>2. /\ task[t].told = {} /\ ~Made(task[t]) /\ task[t] \in TaskRec(started) /\ Found(task[t], started)
      /\ p \in Procs /\ Answered(task[t], proc[p]) /\ proc[p] \in ProcRec /\ Reader(proc[p])
      /\ \A a, b \in proc[p].patching : a = b
  BY <1>1, AtWork
<1>3. task[t].kind \in {"wait", "child", "stop"} /\ task[t].answer = "none"
  BY <1>1, <1>2 DEF Found, KindFits
<1> DEFINE got == task[t].got \cup proc[p].buffer
           r == [task[t] EXCEPT !.got = got, !.pc = next]
           q == [proc[p] EXCEPT !.buffer = {}]
<1>4. /\ task' = [task EXCEPT ![t] = r] /\ proc' = [proc EXCEPT ![p] = q]
      /\ UNCHANGED <<started, managed>>
  BY <1>1, <1>2 DEF Take, Of, AnswersInv, Typed
<1>5. got \subseteq 1..proc[p].read
  BY <1>2, <1>3 DEF Answered, Reader
<1>6. got \in SUBSET (1..MaxChunks)
  <2>1. task[t].got \in SUBSET (1..MaxChunks) /\ proc[p].buffer \in SUBSET (1..MaxChunks)
    BY <1>2 DEF TaskRec, ProcRec
  <2> QED BY <2>1
<1> HIDE DEF got
<1>7. /\ r \in TaskRec(started) /\ r.proc = p /\ r.kind = task[t].kind /\ r.got = got /\ r.told = {}
      /\ ~Made(r) /\ r.pc = next /\ r.answer = "none" /\ r.left = task[t].left
  BY <1>2, <1>3, <1>6 DEF TaskRec, Made
<1>8. /\ q \in ProcRec /\ q.tail = proc[p].tail /\ q.read = proc[p].read /\ q.written = proc[p].written
      /\ q.closed = proc[p].closed /\ q.buffer = {} /\ q.patching = proc[p].patching
      /\ q.news = proc[p].news
  BY <1>2 DEF ProcRec
<1> HIDE DEF r, q
<1>9. Found(r, started)
  BY <1>1, <1>2, <1>3, <1>7 DEF Found, KindFits
<1>10. Answered(r, q)
  BY <1>1, <1>2, <1>3, <1>5, <1>7, <1>8 DEF Answered, Past
<1>11. \A a, b \in q.patching : a = b
  BY <1>2, <1>8
<1> HIDE DEF p
<1>12. /\ Typed' /\ RequestsAreTrue' /\ ReadersAreTrue' /\ OneHolder'
       /\ task'[t] = r /\ \A u \in Tasks : u # t => task'[u] = task[u]
       /\ proc'[p] = q /\ \A o \in Procs : o # p => proc'[o] = proc[o]
  BY <1>2, <1>4, <1>7, <1>8, <1>9, <1>10, <1>11, BothStepsKeep
<1>13. OutputAnsweredOnce'
  <2>1. /\ \A u \in Waits : task[u].proc \in Procs /\ task[u].got \cap proc[task[u].proc].buffer = {}
        /\ t \in Waits /\ task[t].proc = p
    BY <1>3, RequestHasProcess DEF AnswersInv, OutputAnsweredOnce, Of, Waits, p
  <2>2. /\ Waits' = Waits
        /\ \A u \in Waits : task'[u].proc = task[u].proc /\ (u # t => task'[u].got = task[u].got)
        /\ task'[t].got = task[t].got \cup proc[p].buffer
    BY <1>7, <1>12, <2>1 DEF Waits, got, p
  <2>3. ASSUME NEW u \in Waits PROVE task'[u].got \cap proc'[task'[u].proc].buffer = {}
    <3>1. CASE task[u].proc = p
      BY <1>8, <1>12, <2>2, <3>1
    <3>2. CASE task[u].proc # p
      BY <1>12, <2>1, <2>2, <3>2
    <3> QED BY <3>1, <3>2
  <2>4. ASSUME NEW u \in Waits, NEW v \in Waits \ {u}, task'[v].proc = task'[u].proc
        PROVE  task'[v].got \cap task'[u].got = {}
    <3>1. task[v].got \cap task[u].got = {}
      BY <2>2, <2>4 DEF AnswersInv, OutputAnsweredOnce
    <3>2. CASE u = t
      <4>1. task'[v].got = task[v].got /\ task[v].proc = p
        BY <2>1, <2>2, <2>4, <3>2
      <4> QED BY <2>1, <2>2, <3>1, <3>2, <4>1
    <3>3. CASE v = t
      <4>1. task'[u].got = task[u].got /\ task[u].proc = p
        BY <2>1, <2>2, <2>4, <3>3
      <4> QED BY <2>1, <2>2, <3>1, <3>3, <4>1
    <3>4. CASE u # t /\ v # t
      BY <2>2, <3>1, <3>4
    <3> QED BY <3>2, <3>3, <3>4
  <2> QED BY <2>2, <2>3, <2>4 DEF OutputAnsweredOnce, Of
<1>14. NewsIsTrue'
  BY <1>2, <1>7, <1>8, <1>12, NewsStaysTrue
<1>15. OutputKept'
  <2>1. /\ t \in Waits' /\ task'[t].proc = p /\ task'[t].got = task[t].got \cup proc[p].buffer
        /\ proc'[p].read = proc[p].read
    BY <1>3, <1>7, <1>8, <1>12 DEF Waits, got, p
  <2>2. \A u \in Waits : u \in Waits' /\ task'[u].proc = task[u].proc /\ task[u].got \subseteq task'[u].got
    BY <1>3, <1>7, <1>12, <2>1 DEF Waits, p
  <2>3. \A o \in Procs : o # p => proc'[o] = proc[o]
    BY <1>12
  <2> SUFFICES ASSUME NEW o \in Procs, NEW c \in 1..proc'[o].read
               PROVE  c \in proc'[o].buffer \/ \E u \in Waits' : task'[u].proc = o /\ c \in task'[u].got
    BY DEF OutputKept
  <2>4. c \in proc[o].buffer \/ \E u \in Waits : task[u].proc = o /\ c \in task[u].got
    BY <2>1, <2>3 DEF AnswersInv, OutputKept
  <2>5. CASE c \in proc[o].buffer
    BY <2>1, <2>3, <2>5
  <2>6. CASE \E u \in Waits : task[u].proc = o /\ c \in task[u].got
    BY <2>2, <2>6
  <2> QED BY <2>4, <2>5, <2>6
<1> QED BY <1>12, <1>13, <1>14, <1>15 DEF AnswersInv

\* A stop or a patch takes the lock of its process.
LEMMA LockKeeps ==
  ASSUME AnswersInv, NEW t \in Tasks, Lock(t)
  PROVE  AnswersInv'
<1> DEFINE p == task[t].proc
           next == IF task[t].kind = "stop" THEN "drain" ELSE "apply"
           r == [task[t] EXCEPT !.pc = next]
           q == [proc[p] EXCEPT !.patching = {t}]
<1>1. /\ task[t].told = {} /\ ~Made(task[t]) /\ task[t] \in TaskRec(started) /\ Found(task[t], started)
      /\ p \in Procs /\ Answered(task[t], proc[p]) /\ proc[p] \in ProcRec /\ Reader(proc[p])
      /\ task[t].pc = "lock"
  BY AtWork DEF Lock
<1>2. task[t].kind \in {"stop", "patch"} /\ task[t].answer = "none"
  BY <1>1 DEF Found, KindFits
<1>3. /\ task' = [task EXCEPT ![t] = r] /\ proc' = [proc EXCEPT ![p] = q]
      /\ UNCHANGED <<started, managed>>
  BY <1>1 DEF Lock, Goto, AnswersInv, Typed
<1>4. /\ next \in {"drain", "apply"}
      /\ next = "drain" <=> task[t].kind = "stop"
  OBVIOUS
<1> HIDE DEF next
<1>5. /\ r \in TaskRec(started) /\ r.proc = p /\ r.kind = task[t].kind /\ r.got = task[t].got /\ r.told = {}
      /\ ~Made(r) /\ r.pc = next /\ r.answer = "none" /\ r.left = task[t].left
  BY <1>1, <1>2, <1>4 DEF TaskRec, Made
<1>6. /\ q \in ProcRec /\ q.tail = proc[p].tail /\ q.read = proc[p].read /\ q.written = proc[p].written
      /\ q.closed = proc[p].closed /\ q.buffer = proc[p].buffer /\ q.patching = {t}
      /\ q.news = proc[p].news
  BY <1>1 DEF ProcRec
<1> HIDE DEF r, q
<1>7. Found(r, started)
  BY <1>1, <1>2, <1>4, <1>5 DEF Found, KindFits
<1>8. Answered(r, q)
  BY <1>1, <1>2, <1>4, <1>5, <1>6 DEF Answered, Past
<1> HIDE DEF p
<1>9. /\ Typed' /\ RequestsAreTrue' /\ ReadersAreTrue' /\ OneHolder'
      /\ task'[t] = r /\ \A u \in Tasks : u # t => task'[u] = task[u]
      /\ proc'[p] = q /\ \A o \in Procs : o # p => proc'[o] = proc[o]
  <2>1. \A a, b \in q.patching : a = b
    BY <1>6
  <2> QED BY <1>1, <1>3, <1>5, <1>6, <1>7, <1>8, <2>1, BothStepsKeep
<1>10. OutputAnsweredOnce'
  BY <1>5, <1>6, <1>9, AnswersStayApart DEF p
<1>11. NewsIsTrue'
  BY <1>1, <1>5, <1>6, <1>9, NewsStaysTrue
<1>12. OutputKept'
  BY <1>5, <1>6, <1>9, OutputStaysKept DEF p, Waits
<1> QED BY <1>9, <1>10, <1>11, <1>12 DEF AnswersInv

\* A wait reports the news of its process; a stop drops the lock.
LEMMA ReportKeeps ==
  ASSUME AnswersInv, NEW t \in Tasks, Report(t)
  PROVE  AnswersInv'
<1> DEFINE p == task[t].proc
           told == IF task[t].kind = "stop" THEN {} ELSE proc[p].news
           r == [task[t] EXCEPT !.pc = "done", !.told = told]
           q == [proc[p] EXCEPT !.news = @ \ told, !.patching = @ \ {t}]
<1>1. /\ task[t].told = {} /\ ~Made(task[t]) /\ task[t] \in TaskRec(started) /\ Found(task[t], started)
      /\ p \in Procs /\ Answered(task[t], proc[p]) /\ proc[p] \in ProcRec /\ Reader(proc[p])
      /\ task[t].pc = "report" /\ \A a, b \in proc[p].patching : a = b
  BY AtWork DEF Report
<1>2. task[t].kind \in {"wait", "child", "stop"}
  BY <1>1 DEF Found, KindFits
<1>3. /\ task' = [task EXCEPT ![t] = r] /\ proc' = [proc EXCEPT ![p] = q]
      /\ UNCHANGED <<started, managed>>
  BY <1>1 DEF Report, Of, AnswersInv, Typed
<1>4. /\ told \subseteq proc[p].news /\ proc[p].news \in SUBSET Tasks /\ proc[p].patching \in SUBSET Tasks
      /\ told \in SUBSET Tasks
  BY <1>1 DEF ProcRec
<1> HIDE DEF told
<1>5. /\ r \in TaskRec(started) /\ r.proc = p /\ r.kind = task[t].kind /\ r.got = task[t].got
      /\ r.told = told /\ ~Made(r) /\ r.pc = "done" /\ r.answer = task[t].answer
      /\ r.left = task[t].left
  BY <1>1, <1>2, <1>4 DEF TaskRec, Made
<1>6. /\ q \in ProcRec /\ q.tail = proc[p].tail /\ q.read = proc[p].read /\ q.written = proc[p].written
      /\ q.closed = proc[p].closed /\ q.buffer = proc[p].buffer /\ q.patching = proc[p].patching \ {t}
      /\ q.news = proc[p].news \ told
  <2>1. proc[p].news \ told \in SUBSET Tasks /\ proc[p].patching \ {t} \in SUBSET Tasks
    BY <1>4
  <2> QED BY <1>1, <2>1 DEF ProcRec
<1> HIDE DEF r, q
<1>7. Found(r, started)
  BY <1>1, <1>2, <1>5 DEF Found, KindFits
<1>8. Answered(r, q)
  BY <1>1, <1>2, <1>5, <1>6 DEF Answered, Past
<1>9. \A a, b \in q.patching : a = b
  BY <1>1, <1>6
<1> HIDE DEF p
<1>10. /\ Typed' /\ RequestsAreTrue' /\ ReadersAreTrue' /\ OneHolder'
       /\ task'[t] = r /\ \A u \in Tasks : u # t => task'[u] = task[u]
       /\ proc'[p] = q /\ \A o \in Procs : o # p => proc'[o] = proc[o]
  BY <1>1, <1>3, <1>5, <1>6, <1>7, <1>8, <1>9, BothStepsKeep
<1>11. OutputAnsweredOnce'
  BY <1>5, <1>6, <1>10, AnswersStayApart DEF p
<1>20. OutputKept'
  BY <1>5, <1>6, <1>10, OutputStaysKept DEF p, Waits
<1>12. \A n \in Tasks : Made(task'[n]) \/ Made(task[n]) => n # t /\ task'[n] = task[n]
  BY <1>1, <1>5, <1>10
<1>13. \A n \in told : n \in proc[p].news /\ n \in Tasks /\ Made(task[n]) /\ task[n].proc = p
  BY <1>1, <1>4 DEF AnswersInv, NewsIsTrue, NewsIsMade
<1>14. \A n \in told : \A u \in Tasks : n \notin task[u].told
  BY <1>13 DEF AnswersInv, NewsIsTrue, ToldIsMade
<1>15. \A u \in Tasks : \A n \in task'[u].told :
         n \in Tasks /\ ((u = t /\ n \in told) \/ (u # t /\ n \in task[u].told))
  <2>1. \A u \in Tasks \ {t} : task[u].told \in SUBSET Tasks
    BY DEF AnswersInv, Typed, TaskRec
  <2>2. \A u \in Tasks \ {t} : task'[u] = task[u]
    BY <1>10
  <2>3. task'[t].told = told
    BY <1>5, <1>10
  <2>4. ASSUME NEW u \in Tasks, NEW n \in task'[u].told
        PROVE  n \in Tasks /\ ((u = t /\ n \in told) \/ (u # t /\ n \in task[u].told))
    <3>1. CASE u = t
      BY <1>4, <2>3, <2>4, <3>1
    <3>2. CASE u # t
      BY <2>1, <2>2, <2>4, <3>2
    <3> QED BY <3>1, <3>2
  <2> QED BY <2>4
<1>16. NewsIsMade'
  <2>1. \A o \in Procs : proc'[o].news \subseteq proc[o].news /\ proc[o].news \subseteq Tasks
    BY <1>6, <1>10 DEF AnswersInv, Typed, ProcRec
  <2> QED BY <1>12, <2>1 DEF AnswersInv, NewsIsTrue, NewsIsMade
<1>17. ToldIsMade'
  <2> SUFFICES ASSUME NEW u \in Tasks, NEW n \in task'[u].told
               PROVE  /\ u \in Waits' /\ Made(task'[n]) /\ task'[n].proc = task'[u].proc
                      /\ n \notin proc'[task'[n].proc].news
    BY DEF ToldIsMade
  <2>1. CASE u = t /\ n \in told
    <3>1. task'[n] = task[n] /\ Made(task[n]) /\ task[n].proc = p
      BY <1>12, <1>13, <2>1
    <3> QED BY <1>2, <1>5, <1>6, <1>10, <2>1, <3>1 DEF Waits
  <2>2. CASE u # t /\ n \in task[u].told
    <3>1. /\ u \in Waits /\ Made(task[n]) /\ task[n].proc = task[u].proc /\ n \in Tasks
          /\ n \notin proc[task[n].proc].news
      BY <1>15, <2>2 DEF AnswersInv, NewsIsTrue, ToldIsMade
    <3>2. task'[n] = task[n] /\ task'[u] = task[u] /\ task[n].proc \in Procs
      BY <1>10, <1>12, <2>2, <3>1, RequestHasProcess DEF Made
    <3>3. proc'[task[n].proc].news \subseteq proc[task[n].proc].news
      BY <1>6, <1>10, <3>2
    <3> QED BY <3>1, <3>2, <3>3 DEF Waits
  <2> QED BY <1>15, <2>1, <2>2
<1>18. ToldOnce'
  BY <1>14, <1>15 DEF AnswersInv, NewsIsTrue, ToldOnce
<1>19. MadeIsKnown'
  <2> SUFFICES ASSUME NEW n \in Tasks, Made(task'[n])
               PROVE  n \in proc'[task'[n].proc].news \/ \E u \in Tasks : n \in task'[u].told
    BY DEF MadeIsKnown
  <2>1. /\ task'[n] = task[n] /\ Made(task[n]) /\ task[n].proc \in Procs
    BY <1>12, RequestHasProcess DEF Made
  <2>2. CASE n \in told
    BY <1>5, <1>10, <2>2
  <2>3. CASE n \in proc[task[n].proc].news /\ n \notin told
    BY <1>6, <1>10, <2>1, <2>3
  <2>4. ASSUME NEW u \in Tasks, n \in task[u].told PROVE n \in task'[u].told
    BY <1>1, <1>10, <2>4
  <2> QED BY <2>1, <2>2, <2>3, <2>4 DEF AnswersInv, NewsIsTrue, MadeIsKnown
<1> QED BY <1>10, <1>11, <1>16, <1>17, <1>18, <1>19, <1>20 DEF AnswersInv, NewsIsTrue

\* A spawn or a patch that was made is news.
LEMMA AddNewsKeeps ==
  ASSUME AnswersInv, NEW t \in Tasks, AddNews(t)
  PROVE  AnswersInv'
<1> DEFINE p == task[t].proc
           r == [task[t] EXCEPT !.pc = "done", !.answer = "finished"]
           q == [proc[p] EXCEPT !.news = @ \cup {t}, !.patching = @ \ {t}]
<1>1. /\ task[t].told = {} /\ ~Made(task[t]) /\ task[t] \in TaskRec(started) /\ Found(task[t], started)
      /\ p \in Procs /\ Answered(task[t], proc[p]) /\ proc[p] \in ProcRec /\ Reader(proc[p])
      /\ task[t].pc \in {"push", "apply"} /\ \A a, b \in proc[p].patching : a = b
  BY AtWork DEF AddNews
<1>2. task[t].kind \in {"spawn", "patch"}
  BY <1>1 DEF Found, KindFits
<1>3. /\ task' = [task EXCEPT ![t] = r] /\ proc' = [proc EXCEPT ![p] = q]
      /\ UNCHANGED <<started, managed>>
  BY <1>1 DEF AddNews, AnswersInv, Typed
<1>4. /\ r \in TaskRec(started) /\ r.proc = p /\ r.kind = task[t].kind /\ r.got = task[t].got
      /\ r.told = {} /\ Made(r) /\ r.pc = "done"
  BY <1>1, <1>2 DEF TaskRec, Made
<1>5. /\ q \in ProcRec /\ q.tail = proc[p].tail /\ q.read = proc[p].read /\ q.written = proc[p].written
      /\ q.closed = proc[p].closed /\ q.buffer = proc[p].buffer /\ q.patching = proc[p].patching \ {t}
      /\ q.news = proc[p].news \cup {t}
  <2>1. proc[p].news \cup {t} \in SUBSET Tasks /\ proc[p].patching \ {t} \in SUBSET Tasks
    BY <1>1 DEF ProcRec
  <2> QED BY <1>1, <2>1 DEF ProcRec
<1> HIDE DEF r, q
<1>6. Found(r, started)
  BY <1>1, <1>2, <1>4 DEF Found, KindFits
<1>7. Answered(r, q)
  BY <1>2, <1>4 DEF Answered
<1>8. \A a, b \in q.patching : a = b
  BY <1>1, <1>5
<1> HIDE DEF p
<1>9. /\ Typed' /\ RequestsAreTrue' /\ ReadersAreTrue' /\ OneHolder'
      /\ task'[t] = r /\ \A u \in Tasks : u # t => task'[u] = task[u]
      /\ proc'[p] = q /\ \A o \in Procs : o # p => proc'[o] = proc[o]
  BY <1>1, <1>3, <1>4, <1>5, <1>6, <1>7, <1>8, BothStepsKeep
<1>10. OutputAnsweredOnce'
  BY <1>2, <1>4, <1>5, <1>9, AnswersStayApart
<1>17. OutputKept'
  BY <1>2, <1>5, <1>9, OutputStaysKept DEF Waits
<1>11. \A n \in Tasks : Made(task[n]) => n # t /\ task'[n] = task[n] /\ task[n].proc \in Procs
  BY <1>1, <1>9, RequestHasProcess DEF Made
<1>12. \A u \in Tasks : task'[u].told = task[u].told
  BY <1>1, <1>4, <1>9
<1>13. NewsIsMade'
  <2> SUFFICES ASSUME NEW o \in Procs, NEW n \in proc'[o].news PROVE Made(task'[n]) /\ task'[n].proc = o
    BY DEF NewsIsMade
  <2>1. CASE n \in proc[o].news
    <3>1. Made(task[n]) /\ task[n].proc = o /\ n \in Tasks
      BY <2>1 DEF AnswersInv, NewsIsTrue, NewsIsMade, Typed, ProcRec
    <3> QED BY <1>11, <3>1
  <2>2. CASE o = p /\ n = t
    BY <1>4, <1>9, <2>2
  <2> QED BY <1>5, <1>9, <2>1, <2>2
<1>14. ToldIsMade'
  <2> SUFFICES ASSUME NEW u \in Tasks, NEW n \in task[u].told
               PROVE  /\ u \in Waits' /\ Made(task'[n]) /\ task'[n].proc = task'[u].proc
                      /\ n \notin proc'[task'[n].proc].news
    BY <1>12 DEF ToldIsMade
  <2>1. /\ u \in Waits /\ Made(task[n]) /\ task[n].proc = task[u].proc /\ n \in Tasks
        /\ n \notin proc[task[n].proc].news
    BY DEF AnswersInv, NewsIsTrue, ToldIsMade, Typed, TaskRec
  <2>2. u # t
    BY <1>1
  <2>3. task'[n] = task[n] /\ task'[u] = task[u] /\ task[n].proc \in Procs /\ n # t
    BY <1>9, <1>11, <2>1, <2>2
  <2>4. n \notin proc'[task[n].proc].news
    BY <1>5, <1>9, <2>1, <2>3
  <2> QED BY <2>1, <2>3, <2>4 DEF Waits
<1>15. ToldOnce'
  BY <1>12 DEF AnswersInv, NewsIsTrue, ToldOnce
<1>16. MadeIsKnown'
  <2> SUFFICES ASSUME NEW n \in Tasks, Made(task'[n])
               PROVE  n \in proc'[task'[n].proc].news \/ \E u \in Tasks : n \in task'[u].told
    BY DEF MadeIsKnown
  <2>1. CASE n = t
    BY <1>4, <1>5, <1>9, <2>1
  <2>2. CASE n # t
    <3>1. task'[n] = task[n] /\ Made(task[n]) /\ task[n].proc \in Procs
      BY <1>9, <1>11, <2>2
    <3>2. proc[task[n].proc].news \subseteq proc'[task[n].proc].news
      BY <1>5, <1>9, <3>1
    <3> QED BY <1>12, <3>1, <3>2 DEF AnswersInv, NewsIsTrue, MadeIsKnown
  <2> QED BY <2>1, <2>2
<1> QED BY <1>9, <1>10, <1>13, <1>14, <1>15, <1>16, <1>17 DEF AnswersInv, NewsIsTrue

-----------------------------------------------------------------------------
(* Every behaviour.                                                        *)

\* No process is started and no request made.
LEMMA InitKeeps == Init => AnswersInv
<1> SUFFICES ASSUME Init PROVE AnswersInv
  OBVIOUS
<1>1. started = 0 /\ managed = [h \in Handles |-> 0]
  BY DEF Init
<1>2. \A p \in Procs : proc[p] = NewProc
  BY DEF Init
<1>3. \A t \in Tasks : task[t] = NewTask
  BY DEF Init
<1>4. NewProc \in ProcRec /\ NewTask \in TaskRec(0) /\ MaxProcs \in Nat
  BY ConstantsAssumption DEF NewProc, NewTask, ProcRec, TaskRec
<1>5. Typed
  <2>1. \A p \in Procs : proc[p].tail <= proc[p].read /\ proc[p].read <= proc[p].written
    BY <1>2 DEF NewProc
  <2>2. proc \in [Procs -> ProcRec] /\ task \in [Tasks -> TaskRec(started)]
    BY <1>1, <1>4 DEF Init
  <2> QED BY <1>1, <1>4, <2>1, <2>2 DEF Typed
<1>6. RequestsAreTrue /\ Waits = {} /\ NewsIsTrue
  <2>1. \A t \in Tasks : /\ task[t].kind = "none" /\ task[t].pc = "new" /\ task[t].told = {}
                         /\ task[t].answer = "none"
    BY <1>3 DEF NewTask
  <2>2. \A p \in Procs : proc[p].news = {}
    BY <1>2 DEF NewProc
  <2> QED BY <2>1, <2>2 DEF RequestsAreTrue, Found, KindFits, Waits, NewsIsTrue, NewsIsMade, ToldIsMade,
                            ToldOnce, MadeIsKnown, Made
<1>7. ReadersAreTrue /\ OneHolder
  BY <1>2 DEF ReadersAreTrue, Reader, OneHolder, NewProc
<1>8. OutputKept
  BY <1>2 DEF OutputKept, NewProc
<1> QED BY <1>5, <1>6, <1>7, <1>8 DEF AnswersInv, OutputAnsweredOnce

\* Every step.
LEMMA NextKeeps == AnswersInv /\ [Next]_vars => AnswersInv'
<1> SUFFICES ASSUME AnswersInv, [Next]_vars PROVE AnswersInv'
  OBVIOUS
<1>1. CASE UNCHANGED vars
  BY <1>1 DEF vars, AnswersInv, Typed, RequestsAreTrue, ReadersAreTrue, OneHolder, OutputAnsweredOnce, OutputKept,
              Waits, Of, NewsIsTrue, NewsIsMade, ToldIsMade, ToldOnce, MadeIsKnown
<1>2. ASSUME NEW h \in Handles, Start(h) PROVE AnswersInv'
  BY <1>2, StartKeeps
<1>3. ASSUME NEW p \in Procs,
             Write(p) \/ Exit(p) \/ Release(p) \/ ReadChunk(p) \/ ReadTail(p) \/ ReaderEnds(p) \/ ReaderFails(p)
      PROVE  AnswersInv'
  BY <1>3, ProcessesKeep
<1>4. ASSUME NEW t \in Tasks, Step(t) \/ Disconnect(t) PROVE AnswersInv'
  <2>1. CASE \/ LookAtWaited(t) \/ LookAtSubscribed(t) \/ SeeExit(t) \/ Finish(t) \/ GiveUpReader(t)
             \/ SendLast(t) \/ Remove(t) \/ GiveUp(t) \/ Disconnect(t)
    BY <2>1, LoopsKeep
  <2>2. CASE Collect(t) \/ Drain(t)
    BY <2>2, TakeKeeps
  <2> QED BY <1>4, <2>1, <2>2, ShutDownKeeps, LockKeeps, ReportKeeps, AddNewsKeeps DEF Step
<1>5. ASSUME NEW t \in Tasks, NEW h \in Handles, SpawnStart(t, h) \/ SpawnRefused(t, h)
      PROVE  AnswersInv'
  BY <1>5, LoopsKeep
<1>6. ASSUME NEW t \in Tasks, NEW kind \in Kinds, NEW h \in Handles, Begin(t, kind, h)
      PROVE  AnswersInv'
  BY <1>6, BeginKeeps
<1> QED BY <1>1, <1>2, <1>3, <1>4, <1>5, <1>6 DEF Next

\* A set whose members are all the same has at most one.
LEMMA AtMostOne ==
  ASSUME NEW S, \A a, b \in S : a = b
  PROVE  Cardinality(S) \in {0, 1}
<1>1. CASE S = {}
  BY <1>1, FS_EmptySet
<1>2. CASE S # {}
  <2> PICK a \in S : TRUE
    BY <1>2
  <2>1. S = {a}
    OBVIOUS
  <2> QED BY <2>1, FS_Singleton
<1> QED BY <1>1, <1>2

\* The inductive invariant says what the answers promise.
LEMMA AnswersFollow == AnswersInv => AnswersAreComplete
<1> SUFFICES ASSUME AnswersInv PROVE AnswersAreComplete
  OBVIOUS
<1>1. TypeOK
  <2>1. \A p \in Procs : Cardinality(proc[p].patching) <= 1
    BY AtMostOne DEF AnswersInv, OneHolder
  <2> QED BY <2>1 DEF AnswersInv, Typed, ProcRec, TaskRec, TypeOK
<1>2. NothingAfterTheEnd
  <2> SUFFICES ASSUME NEW t \in Waits, task[t].pc = "done", task[t].answer \in {"finished", "stopped"},
                      ~task[t].left
               PROVE  Of(t).buffer = {} /\ Of(t).closed
    BY DEF NothingAfterTheEnd
  <2>1. Answered(task[t], proc[task[t].proc])
    BY DEF Waits, AnswersInv, RequestsAreTrue
  <2> QED BY <2>1 DEF Waits, Answered, Past, Of
<1>3. NewsToldOnce
  <2> SUFFICES ASSUME NEW n \in Tasks, Made(task[n])
               PROVE  LET tellers == {t \in Waits : n \in task[t].told} IN
                      /\ Cardinality(tellers) <= 1
                      /\ tellers # {} => n \notin Of(n).news
                      /\ managed[task[n].handle] = task[n].proc => (tellers # {} \/ n \in Of(n).news)
    <3>1. ASSUME NEW n \in Tasks, task[n].kind \in {"spawn", "patch"}, task[n].answer = "finished"
          PROVE  Made(task[n])
      BY <3>1 DEF Made, AnswersInv, RequestsAreTrue, Found, KindFits
    <3> QED BY <3>1 DEF NewsToldOnce
  <2> DEFINE tellers == {t \in Waits : n \in task[t].told}
  <2>1. \A a, b \in tellers : a = b
    BY DEF AnswersInv, NewsIsTrue, ToldOnce, Waits
  <2>2. Cardinality(tellers) <= 1
    <3>1. Cardinality(tellers) \in {0, 1}
      <4> HIDE DEF tellers
      <4> QED BY <2>1, AtMostOne
    <3> QED BY <3>1
  <2>3. \A t \in tellers : t \in Tasks /\ n \in task[t].told
    BY DEF Waits
  <2>4. tellers # {} => n \notin Of(n).news
    BY <2>3 DEF AnswersInv, NewsIsTrue, ToldIsMade, Of
  <2>5. tellers # {} \/ n \in Of(n).news
    BY DEF AnswersInv, NewsIsTrue, MadeIsKnown, ToldIsMade, Of
  <2> QED BY <2>2, <2>4, <2>5
<1>4. SubscriptionEndsComplete
  <2> SUFFICES ASSUME NEW t \in Tasks, task[t].kind = "subscribe", task[t].pc = "done", ~task[t].left
               PROVE  task[t].got = 1..Of(t).read
    BY DEF SubscriptionEndsComplete
  <2>1. task[t].proc \in Procs /\ Answered(task[t], proc[task[t].proc])
    BY RequestHasProcess DEF AnswersInv, RequestsAreTrue
  <2>2. proc[task[t].proc].closed /\ task[t].got = 1..proc[task[t].proc].tail
    BY <2>1 DEF Answered, Past
  <2> QED BY <2>1, <2>2 DEF Of, AnswersInv, ReadersAreTrue, Reader
<1> QED BY <1>1, <1>2, <1>3, <1>4 DEF AnswersInv, AnswersAreComplete

\* Whatever waits, stops, patches and subscriptions meet: output and news are
\* answered once and dropped by nobody, and the answers that say the end have
\* all there is, unless the reader of the output was given up on.
THEOREM AnswersComplete == Spec => []AnswersAreComplete
<1> QED BY InitKeeps, NextKeeps, AnswersFollow, PTL DEF Spec

====
