-------------------------- MODULE Providers_proofs --------------------------
(***************************************************************************)
(* Proofs about a provider's login, for any number of tasks that use and   *)
(* change it at the same time: a refresh token is used once, the last      *)
(* operation stands, and what is shown is what is in use.                  *)
(***************************************************************************)
EXTENDS Providers, TLAPS

-----------------------------------------------------------------------------
(* The invariant.                                                          *)

\* Nothing crossed a change of the login, and what was written was read: what the
\* properties except.
Clean == excused \cap {"late", "refresh", "unread"} = {}

\* No models were asked for with a login that was changed since, either.
Undisturbed == excused \subseteq {"lost"}

Refreshers == {"refresh", "write", "put"}
Changing == {"exchange", "save", "revoke", "remove", "read", "store", "clear"}
Using == {"auth", "lock", "recover", "take", "send", "models", "fetch"} \cup Refreshers

\* The logins that tokens in use may be of.
Used == (0..logins) \cup (IF environment THEN {EnvironmentKey} ELSE {})

LoginsKnown == disk.login \in 0..logins /\ memory.login \in Used

\* Whoever refreshes holds the lock, and only tokens of Codex expire.
LockHeld ==
  /\ \A t \in Tasks : task[t].at \in Refreshers <=> refreshing = t
  /\ kind = "codex" => ~environment
  /\ kind # "codex" => stale = {}

\* What the work of a task is, whatever the others do.
Fits(w) ==
  /\ w.token.login \in Used
  /\ w.at \in Refreshers => w.token.login \in 1..logins
  /\ kind # "codex" => w.at \notin Refreshers \cup {"lock", "recover", "take"}
  /\ w.at \in Changing => w.job \in DOMAIN Operations /\ ~w.fresh
  /\ w.at \in Using => w.next # "idle"
  /\ w.at = "send" \/ w.next = "send" => w.job = "turn"
  /\ w.at # "publish" => w.models = 0
  /\ w.at = "idle" <=> w = Idle

WorksFit == \A t \in Tasks : Fits(task[t])

\* The login in use, that in the file and that of a refresh are one.
Agrees == Clean =>
  /\ memory.login = outcome
  /\ \A t \in Tasks : refreshing = t =>
       /\ task[t].token.login = memory.login /\ disk.login = memory.login
       /\ task[t].at = "put" => task[t].token = disk
       /\ task[t].at # "put" => memory = disk
  /\ (\A t \in Tasks : task[t].at \notin {"read", "store", "put"}) => memory = Loaded(disk)

\* A token is the last of its login, unless that was revoked.
Current(token) == token.login \in 1..MaxLogins => server[token.login] \in {0, token.number}

TokensCurrent == excused = {} =>
  /\ (\A t \in Tasks : task[t].at # "write") => Current(disk)
  /\ (\A t \in Tasks : task[t].at \notin {"write", "put"}) => Current(memory)
  /\ \A t \in Tasks : refreshing = t => Current(task[t].token)

\* What is known of the login since it changed is that it is the one in use.
FreshIsTrue == Clean => \A t \in Tasks : task[t].fresh => task[t].login = memory.login

Clearing == \E t \in Tasks : task[t].at = "clear"
ModelsOf(l) == {l, Public}

\* The models a task asks for, or found, are those of the login in use.
Catalogued(w) ==
  /\ w.at = "fetch" => w.token.login = memory.login
  /\ w.at = "publish" /\ w.ok /\ w.fresh => w.models \in ModelsOf(memory.login)

CatalogSound == Undisturbed /\ ~Clearing =>
  /\ catalog \in {0, memory.login}
  /\ \A t \in Tasks : Catalogued(task[t])

\* An operation that changes what is shown publishes after it.
Operating == \E t \in Tasks : task[t].job \in DOMAIN Operations
Working == \E t \in Tasks : task[t].at # "idle"

ShownSound == Undisturbed /\ shown.fresh =>
  /\ shown.lifecycle # "failed" =>
       Operating \/ (shown.login = memory.login /\ shown.models \in ModelsOf(memory.login))
  /\ shown.lifecycle \in Busy => Working

WorkInv == TypeOK /\ LoginsKnown /\ LockHeld /\ WorksFit /\ Agrees /\ TokensCurrent /\ FreshIsTrue /\ CatalogSound
IInv == WorkInv /\ ShownSound

-----------------------------------------------------------------------------
(* What a step makes of the tasks.                                         *)

\* Nothing is left of the work of a task that is idle.
LEMMA IdleIs ==
  ASSUME NEW w \in Works, w.job = "none", w.at = "idle", w.next = "idle", w.token = NoToken,
         w.again = FALSE, w.ok = TRUE, w.login = 0, w.models = 0, w.fresh = FALSE
  PROVE  w = Idle
<1>1. \A r \in Works : r = [job |-> r.job, at |-> r.at, next |-> r.next, token |-> r.token, again |-> r.again,
                            ok |-> r.ok, login |-> r.login, models |-> r.models, fresh |-> r.fresh]
  BY DEF Works
<1>2. w = [job |-> w.job, at |-> w.at, next |-> w.next, token |-> w.token, again |-> w.again,
           ok |-> w.ok, login |-> w.login, models |-> w.models, fresh |-> w.fresh]
  BY <1>1
<1> QED
  BY <1>2 DEF Idle

\* The work a step leaves a task with, where only that task moves.
LEMMA GoesTo ==
  ASSUME TypeOK, NEW t \in Tasks, NEW w \in Works, Goes(t, w)
  PROVE  /\ task' \in [Tasks -> Works] /\ task'[t] = w
         /\ \A u \in Tasks : u # t => task'[u] = task[u]
  BY DEF TypeOK, Goes

\* A change of the login: what the others know of it is no longer fresh.
LEMMA ChangesTo ==
  ASSUME TypeOK, NEW t \in Tasks, NEW w \in Works, Changes(t, w)
  PROVE  /\ task' \in [Tasks -> Works] /\ task'[t] = w
         /\ \A u \in Tasks : u # t =>
              /\ task'[u].at = task[u].at /\ task'[u].job = task[u].job /\ task'[u].next = task[u].next
              /\ task'[u].token = task[u].token /\ task'[u].ok = task[u].ok /\ task'[u].models = task[u].models
              /\ task'[u].fresh = FALSE
              /\ task[u] = Idle => task'[u] = Idle
<1>1. task'[t] = w
  BY DEF Changes
<1>2. ASSUME NEW u \in Tasks, u # t
      PROVE  /\ task'[u] \in Works
             /\ task'[u].at = task[u].at /\ task'[u].job = task[u].job /\ task'[u].next = task[u].next
             /\ task'[u].token = task[u].token /\ task'[u].ok = task[u].ok /\ task'[u].models = task[u].models
             /\ task'[u].fresh = FALSE
             /\ task[u] = Idle => task'[u] = Idle
  <2>1. task[u] \in Works
    BY DEF TypeOK
  <2>2. task'[u] = [task[u] EXCEPT !.fresh = FALSE]
    BY <1>2 DEF Changes
  <2>3. /\ task'[u] \in Works
        /\ task'[u].at = task[u].at /\ task'[u].job = task[u].job /\ task'[u].next = task[u].next
        /\ task'[u].token = task[u].token /\ task'[u].ok = task[u].ok /\ task'[u].models = task[u].models
        /\ task'[u].fresh = FALSE
    BY <2>1, <2>2 DEF Works
  <2>4. task[u] = Idle => task'[u] = Idle
    <3>1. ASSUME task[u] = Idle
          PROVE  /\ task'[u].job = "none" /\ task'[u].at = "idle" /\ task'[u].next = "idle"
                 /\ task'[u].token = NoToken /\ task'[u].ok = TRUE /\ task'[u].models = 0
                 /\ task'[u].again = FALSE /\ task'[u].login = 0
      BY <3>1, <2>1, <2>2 DEF Idle, Works
    <3> QED
      BY <3>1, <2>3, IdleIs
  <2> QED
    BY <2>3, <2>4
<1>3. DOMAIN task' = Tasks /\ task' = [u \in Tasks |-> task'[u]]
  BY DEF Changes
<1>4. task' \in [Tasks -> Works]
  BY <1>1, <1>2, <1>3
<1> QED
  BY <1>1, <1>2, <1>4

\* The fields of a work that begins.
LEMMA NewWork ==
  ASSUME NEW job \in {"none", "start", "turn", "publish"} \cup DOMAIN Operations, NEW place \in Places
  PROVE  /\ Job(job, place) \in Works
         /\ Job(job, place).job = job /\ Job(job, place).at = place /\ Job(job, place).next = "idle"
         /\ Job(job, place).token = NoToken /\ Job(job, place).token.login = 0
         /\ Job(job, place).ok = TRUE /\ Job(job, place).models = 0 /\ Job(job, place).fresh = FALSE
         /\ Job(job, place).login = 0
<1>1. Idle \in Works
  <2>1. EnvironmentKey \in Nat /\ Public \in Nat
    BY BoundsAssumption DEF EnvironmentKey, Public
  <2> QED
    BY <2>1 DEF Idle, Works, Places, Tokens, NoToken, Token
<1>2. Job(job, place) = [Idle EXCEPT !.job = job, !.at = place]
  BY DEF Job
<1>3. /\ Idle.next = "idle" /\ Idle.token = NoToken /\ Idle.ok = TRUE /\ Idle.models = 0
      /\ Idle.fresh = FALSE /\ Idle.login = 0
  BY DEF Idle
<1>4. NoToken.login = 0
  BY DEF NoToken, Token
<1> QED
  BY <1>1, <1>2, <1>3, <1>4 DEF Works

\* provider_state begins with the tokens.
LEMMA NewPublication ==
  ASSUME NEW job \in {"none", "start", "turn", "publish"} \cup DOMAIN Operations
  PROVE  /\ Publication(job) \in Works
         /\ Publication(job).job = job /\ Publication(job).at = "auth" /\ Publication(job).next = "models"
         /\ Publication(job).token = NoToken /\ Publication(job).token.login = 0
         /\ Publication(job).ok = TRUE /\ Publication(job).models = 0 /\ Publication(job).fresh = FALSE
<1>1. "auth" \in Places
  BY DEF Places
<1>2. PICK w \in Works : w = Job(job, "auth")
  BY NewWork, <1>1
<1>3. w.job = job /\ w.at = "auth" /\ w.token = NoToken /\ w.ok = TRUE /\ w.models = 0 /\ w.fresh = FALSE
  BY NewWork, <1>1, <1>2
<1>4. Publication(job) = [w EXCEPT !.next = "models"]
  BY <1>2 DEF Publication
<1>5. NoToken.login = 0
  BY DEF NoToken, Token
<1> QED
  BY <1>3, <1>4, <1>5 DEF Works

\* What holds of a work that holds no lock and changes nothing,
Good(w) ==
  /\ w \in Works /\ Fits(w)
  /\ w.at \notin Refreshers \cup {"clear"}
  /\ w.fresh /\ Clean => w.login = memory.login
  /\ Undisturbed /\ ~Clearing => Catalogued(w)

\* and of one that a task goes on with.
Stays(t, w) == w.at # "idle" /\ (task[t].job \in DOMAIN Operations => w.job \in DOMAIN Operations)

\* The login to show, or the token of a request, is the one in use.
LEMMA TakenIsGood ==
  ASSUME WorkInv, NEW t \in Tasks, task[t].at \in {"auth", "take"}
  PROVE  Good(Taken(t)) /\ Stays(t, Taken(t))
<1> DEFINE s == task[t]
<1>1. s \in Works /\ Fits(s) /\ memory \in Tokens /\ memory.login \in Used
  BY DEF WorkInv, WorksFit, TypeOK, LoginsKnown
<1>2. s.at \notin {"publish", "idle"} /\ s.at \in Using /\ s.at \in {"auth", "take"}
  BY DEF Using
<1>3. s.next \in {"models", "send", "fetch"} /\ s.models = 0
  BY <1>1, <1>2 DEF Fits, Works
<1>4. s.job = task[t].job /\ Taken(t) = IF s.next = "models"
        THEN [s EXCEPT !.login = memory.login, !.fresh = TRUE, !.at = "models"]
        ELSE [s EXCEPT !.token = memory, !.at = s.next]
  BY DEF Taken
<1>5. s.fresh /\ Clean => s.login = memory.login
  BY DEF WorkInv, FreshIsTrue
<1>6. memory.login \in 0..EnvironmentKey
  BY <1>1, BoundsAssumption DEF Tokens, NoToken, Token, EnvironmentKey
<1> DEFINE w == Taken(t)
<1> HIDE DEF s
<1>7. CASE s.next = "models"
  <2>1. w = [s EXCEPT !.login = memory.login, !.fresh = TRUE, !.at = "models"]
    BY <1>4, <1>7
  <2> HIDE DEF w
  <2>2. w \in Works
    BY <1>1, <1>6, <2>1 DEF Works, Places
  <2>3. /\ w.at = "models" /\ w.next = "models" /\ w.token = s.token /\ w.login = memory.login
        /\ w.job = s.job /\ w.models = 0
    BY <1>1, <1>3, <1>7, <2>1 DEF Works
  <2>4. Fits(w)
    BY <1>1, <2>3 DEF Fits, Changing, Refreshers, Idle
  <2>5. Good(w) /\ Stays(t, w)
    BY <1>4, <2>2, <2>3, <2>4 DEF Good, Stays, Refreshers, Catalogued
  <2> QED
    BY <2>5 DEF w
<1>8. CASE s.next \in {"send", "fetch"}
  <2>1. w = [s EXCEPT !.token = memory, !.at = s.next]
    BY <1>4, <1>8
  <2> HIDE DEF w
  <2>2. w \in Works
    BY <1>1, <1>8, <2>1 DEF Works, Places
  <2>3. /\ w.at = s.next /\ w.next = s.next /\ w.token = memory /\ w.login = s.login /\ w.fresh = s.fresh
        /\ w.job = s.job /\ w.models = 0
    BY <1>1, <1>3, <1>8, <2>1 DEF Works
  <2>4. Fits(w)
    BY <1>1, <1>8, <2>3 DEF Fits, Changing, Refreshers, Idle
  <2>5. Good(w) /\ Stays(t, w)
    BY <1>4, <1>5, <1>8, <2>2, <2>3, <2>4 DEF Good, Stays, Refreshers, Catalogued
  <2> QED
    BY <2>5 DEF w
<1> QED
  BY <1>3, <1>7, <1>8

\* An error ends a turn, or is shown.
LEMMA FailedIsGood ==
  ASSUME WorkInv, NEW t \in Tasks, task[t].at \notin {"idle", "publish"}
  PROVE  Good(Failed(t)) /\ Stays(t, Failed(t))
<1>1. task[t] \in Works /\ Fits(task[t])
  BY DEF WorkInv, WorksFit, TypeOK
<1>2. task[t].models = 0
  BY <1>1 DEF Fits
<1>3. 0 \in Used
  BY DEF Used, WorkInv, TypeOK
<1>4. CASE task[t].job = "turn"
  <2>1. PICK w \in Works : w = Publication("publish")
    BY NewPublication
  <2>2. w.job = "publish" /\ w.at = "auth" /\ w.next = "models" /\ w.token.login = 0 /\ w.models = 0 /\ w.fresh = FALSE
    BY NewPublication, <2>1
  <2>3. Fits(w)
    BY <1>3, <2>2 DEF Fits, Changing, Refreshers, Idle
  <2>4. "turn" \notin DOMAIN Operations
    BY DEF Operations
  <2>5. Good(w) /\ Stays(t, w)
    BY <1>4, <2>2, <2>3, <2>4 DEF Good, Stays, Refreshers, Catalogued
  <2> QED
    BY <1>4, <2>1, <2>5 DEF Failed
<1>5. CASE task[t].job # "turn" /\ task[t].next = "fetch" /\ task[t].login = 0
  <2> DEFINE w == [task[t] EXCEPT !.token = NoToken, !.at = "publish"]
  <2>1. NoToken \in Tokens /\ NoToken.login = 0
    BY DEF Tokens, NoToken, Token
  <2>2. w \in Works
    BY <1>1, <2>1 DEF Works, Places
  <2>3. /\ w.job = task[t].job /\ w.at = "publish" /\ w.token = NoToken /\ w.models = 0
        /\ w.fresh = task[t].fresh /\ w.login = 0 /\ w.next = "fetch"
    BY <1>1, <1>2, <1>5 DEF Works
  <2>4. w = Failed(t)
    BY <1>5 DEF Failed
  <2> HIDE DEF w
  <2>5. Fits(w)
    BY <1>3, <2>1, <2>3 DEF Fits, Changing, Refreshers, Using, Idle
  <2>6. Clean /\ w.fresh => memory.login = 0
    BY <1>5, <2>3 DEF WorkInv, FreshIsTrue
  <2>7. Undisturbed => Clean
    BY DEF Undisturbed, Clean
  <2>8. Good(w) /\ Stays(t, w)
    BY <2>2, <2>3, <2>5, <2>6, <2>7 DEF Good, Stays, Refreshers, Catalogued, ModelsOf
  <2> QED
    BY <2>4, <2>8
<1>6. CASE task[t].job # "turn" /\ ~(task[t].next = "fetch" /\ task[t].login = 0)
  <2>1. task[t].job \in {"none", "start", "turn", "publish"} \cup DOMAIN Operations /\ "publish" \in Places
    BY <1>1 DEF Works, Places
  <2>2. PICK w0 \in Works : w0 = Job(task[t].job, "publish")
    BY NewWork, <2>1
  <2>3. /\ w0.next = "idle" /\ w0.job = task[t].job /\ w0.at = "publish" /\ w0.token.login = 0 /\ w0.models = 0 /\ w0.fresh = FALSE
    BY NewWork, <2>1, <2>2
  <2> DEFINE w == [w0 EXCEPT !.ok = FALSE]
  <2>4. w \in Works
    BY DEF Works
  <2>5. /\ w.job = task[t].job /\ w.at = "publish" /\ w.next = "idle" /\ w.token.login = 0
        /\ w.models = 0 /\ w.fresh = FALSE /\ w.ok = FALSE
    BY <2>3 DEF Works
  <2>6. w = Failed(t)
    BY <1>6, <2>2 DEF Failed
  <2> HIDE DEF w
  <2>7. Fits(w)
    BY <1>3, <2>5 DEF Fits, Changing, Refreshers, Using, Idle
  <2>8. Good(w) /\ Stays(t, w)
    BY <2>4, <2>5, <2>7 DEF Good, Stays, Refreshers, Catalogued
  <2> QED
    BY <2>6, <2>8
<1> QED
  BY <1>4, <1>5, <1>6

\* A refused token is tried once more, by Codex.
LEMMA UnauthorizedIsGood ==
  ASSUME WorkInv, NEW t \in Tasks, task[t].at \in {"send", "fetch"}
  PROVE  Good(Unauthorized(t)) /\ Stays(t, Unauthorized(t))
<1>1. task[t] \in Works /\ Fits(task[t])
  BY DEF WorkInv, WorksFit, TypeOK
<1>2. CASE kind = "codex" /\ ~task[t].again
  <2> DEFINE w == [task[t] EXCEPT !.again = TRUE, !.at = "recover"]
  <2>1. w \in Works
    BY <1>1 DEF Works, Places
  <2>2. /\ w.job = task[t].job /\ w.at = "recover" /\ w.token = task[t].token /\ w.models = task[t].models
        /\ w.next = task[t].next /\ w.fresh = task[t].fresh /\ w.login = task[t].login
    BY <1>1 DEF Works
  <2>3. w = Unauthorized(t)
    BY <1>2 DEF Unauthorized
  <2> HIDE DEF w
  <2>4. Fits(w)
    BY <1>1, <1>2, <2>2 DEF Fits, Changing, Refreshers, Using, Idle
  <2>5. w.fresh /\ Clean => w.login = memory.login
    BY <2>2 DEF WorkInv, FreshIsTrue
  <2>6. Good(w) /\ Stays(t, w)
    BY <2>1, <2>2, <2>4, <2>5 DEF Good, Stays, Refreshers, Catalogued
  <2> QED
    BY <2>3, <2>6
<1>3. CASE ~(kind = "codex" /\ ~task[t].again)
  BY <1>3, FailedIsGood DEF Unauthorized
<1> QED
  BY <1>2, <1>3

\* What clients are shown of a provider.
Shows == [lifecycle : Busy \cup {"failed", "loginRequired", "loggedIn"}, login : 0..EnvironmentKey,
          models : 0..Public, fresh : BOOLEAN]

\* A task goes on, and nothing of the login is touched.
LEMMA QuietMove ==
  ASSUME WorkInv, NEW t \in Tasks, NEW w \in Works, Good(w), Goes(t, w),
         task[t].at \notin Refreshers \cup {"clear"},
         task[t].at \in {"read", "store"} => w.at \in {"read", "store"},
         UNCHANGED <<kind, environment, disk, memory, refreshing, catalog, server, stale, logins, outcome, excused>>,
         shown' \in Shows, jobs' \in 0..MaxJobs
  PROVE  WorkInv'
<1>1. /\ task' \in [Tasks -> Works] /\ task'[t] = w
      /\ \A u \in Tasks : u # t => task'[u] = task[u]
  BY GoesTo DEF WorkInv
<1>2. TypeOK'
  BY <1>1 DEF WorkInv, TypeOK, Shows
<1>3. LoginsKnown'
  BY DEF WorkInv, LoginsKnown, Used
<1>4. LockHeld'
  BY <1>1 DEF WorkInv, LockHeld, Good
<1>5. WorksFit'
  <2> SUFFICES ASSUME NEW u \in Tasks PROVE Fits(task[u])'
    BY DEF WorksFit
  <2>1. CASE u = t
    BY <1>1, <2>1 DEF Good, Fits, Used
  <2>2. CASE u # t
    BY <1>1, <2>2 DEF WorkInv, WorksFit, Fits, Used
  <2> QED
    BY <2>1, <2>2
<1>6. Agrees'
  <2> SUFFICES ASSUME Clean PROVE Agrees!2'
    BY DEF Agrees, Clean
  <2>1. refreshing # t
    BY DEF WorkInv, LockHeld
  <2>2. (\A u \in Tasks : task'[u].at \notin {"read", "store", "put"}) =>
          \A u \in Tasks : task[u].at \notin {"read", "store", "put"}
    BY <1>1 DEF Refreshers
  <2> QED
    BY <1>1, <2>1, <2>2 DEF WorkInv, Agrees, Loaded
<1>7. TokensCurrent'
  <2> SUFFICES ASSUME excused = {} PROVE TokensCurrent!2'
    BY DEF TokensCurrent
  <2>1. refreshing # t
    BY DEF WorkInv, LockHeld
  <2>2. \A u \in Tasks : task'[u].at # "write" => task[u].at # "write"
    BY <1>1 DEF Refreshers
  <2>3. \A u \in Tasks : task'[u].at \notin {"write", "put"} => task[u].at \notin {"write", "put"}
    BY <1>1 DEF Refreshers
  <2> QED
    BY <1>1, <2>1, <2>2, <2>3 DEF WorkInv, TokensCurrent, Current
<1>8. FreshIsTrue'
  BY <1>1 DEF WorkInv, FreshIsTrue, Clean, Good
<1>9. CatalogSound'
  <2> SUFFICES ASSUME Undisturbed, ~Clearing' PROVE CatalogSound!2'
    BY DEF CatalogSound, Undisturbed
  <2>1. ~Clearing
    BY <1>1 DEF Clearing
  <2> QED
    BY <1>1, <2>1 DEF WorkInv, CatalogSound, Catalogued, Good, ModelsOf
<1> QED
  BY <1>2, <1>3, <1>4, <1>5, <1>6, <1>7, <1>8, <1>9 DEF WorkInv

\* What is shown stays true while nothing of the login is touched.
LEMMA ShownStays ==
  ASSUME TypeOK, ShownSound, NEW t \in Tasks, NEW w, task'[t] = w, Stays(t, w),
         \A u \in Tasks : u # t => task'[u].job = task[u].job /\ task'[u].at = task[u].at,
         shown' = shown, memory'.login = memory.login, excused \subseteq excused'
  PROVE  ShownSound'
<1> SUFFICES ASSUME Undisturbed', shown.fresh
             PROVE  ShownSound!2'
  BY DEF ShownSound
<1>1. Undisturbed
  BY DEF Undisturbed
<1>2. Operating => Operating'
  BY DEF Operating, Stays
<1>3. Working => Working'
  BY DEF Working, Stays
<1> QED
  BY <1>1, <1>2, <1>3 DEF ShownSound, ModelsOf

\* Both.
LEMMA GoesOn ==
  ASSUME IInv, NEW t \in Tasks, NEW w, Good(w), Stays(t, w), Goes(t, w),
         task[t].at \notin Refreshers \cup {"clear"},
         task[t].at \in {"read", "store"} => w.at \in {"read", "store"},
         UNCHANGED <<kind, environment, disk, memory, refreshing, catalog, server, stale, logins, outcome, excused>>,
         UNCHANGED shown, jobs' \in 0..MaxJobs
  PROVE  IInv'
<1>1. w \in Works
  BY DEF Good
<1>2. shown' \in Shows
  BY DEF IInv, WorkInv, TypeOK, Shows
<1>3. WorkInv'
  BY <1>1, <1>2, QuietMove DEF IInv
<1>4. /\ task'[t] = w
      /\ \A u \in Tasks : u # t => task'[u].job = task[u].job /\ task'[u].at = task[u].at
  BY <1>1, GoesTo DEF IInv, WorkInv
<1>5. ShownSound'
  BY <1>4, ShownStays DEF IInv, WorkInv
<1> QED
  BY <1>3, <1>5 DEF IInv

-----------------------------------------------------------------------------
(* The steps that touch nothing of the login.                              *)

\* What a step leaves alone that a task takes for itself.
LEMMA Waiting ==
  ASSUME IInv, NEW t \in Tasks
  PROVE  /\ task[t] \in Works /\ Fits(task[t]) /\ jobs \in 0..MaxJobs
         /\ task[t].fresh /\ Clean => task[t].login = memory.login
  BY DEF IInv, WorkInv, TypeOK, WorksFit, FreshIsTrue

\* An error, wherever it comes from.
LEMMA FailsStep ==
  ASSUME IInv, NEW t \in Tasks, Goes(t, Failed(t)),
         task[t].at \in {"exchange", "save", "remove", "lock", "recover", "send", "fetch"},
         UNCHANGED <<kind, environment, disk, memory, refreshing, catalog, server, stale, logins, outcome, excused>>,
         UNCHANGED <<shown, jobs>>
  PROVE  IInv'
<1>1. Good(Failed(t)) /\ Stays(t, Failed(t))
  BY FailedIsGood DEF IInv
<1>2. task[t].at \notin Refreshers \cup {"clear", "read", "store"}
  BY DEF Refreshers
<1> QED
  BY <1>1, <1>2, Waiting, GoesOn

\* A token that was refused.
LEMMA RefusedStep ==
  ASSUME IInv, NEW t \in Tasks, Goes(t, Unauthorized(t)), task[t].at \in {"send", "fetch"},
         UNCHANGED <<kind, environment, disk, memory, refreshing, catalog, server, stale, logins, outcome, excused>>,
         UNCHANGED <<shown, jobs>>
  PROVE  IInv'
<1>1. Good(Unauthorized(t)) /\ Stays(t, Unauthorized(t))
  BY UnauthorizedIsGood DEF IInv
<1>2. task[t].at \notin Refreshers \cup {"clear", "read", "store"}
  BY DEF Refreshers
<1> QED
  BY <1>1, <1>2, Waiting, GoesOn

\* The tokens are taken.
LEMMA TakesStep ==
  ASSUME IInv, NEW t \in Tasks, Goes(t, Taken(t)), task[t].at \in {"auth", "take"},
         UNCHANGED <<kind, environment, disk, memory, refreshing, catalog, server, stale, logins, outcome, excused>>,
         UNCHANGED <<shown, jobs>>
  PROVE  IInv'
<1>1. Good(Taken(t)) /\ Stays(t, Taken(t))
  BY TakenIsGood DEF IInv
<1>2. task[t].at \notin Refreshers \cup {"clear", "read", "store"}
  BY DEF Refreshers
<1> QED
  BY <1>1, <1>2, Waiting, GoesOn

LEMMA StartTurnStep ==
  ASSUME IInv, NEW t \in Tasks, StartTurn(t)
  PROVE  IInv'
<1>1. "auth" \in Places
  BY DEF Places
<1>2. PICK w0 \in Works : w0 = Job("turn", "auth")
  BY NewWork, <1>1
<1> DEFINE w == [w0 EXCEPT !.next = "send"]
<1>3. w \in Works
  BY DEF Works
<1>4. w0.job = "turn" /\ w0.at = "auth" /\ w0.token.login = 0 /\ w0.models = 0 /\ w0.fresh = FALSE
  <2>1. "turn" \in {"none", "start", "turn", "publish"} \cup DOMAIN Operations
    OBVIOUS
  <2> QED
    BY NewWork, <1>1, <1>2, <2>1
<1>5. w.job = "turn" /\ w.at = "auth" /\ w.next = "send" /\ w.token.login = 0 /\ w.models = 0 /\ w.fresh = FALSE
  BY <1>4 DEF Works
<1>6. Goes(t, w) /\ task[t] = Idle /\ jobs' = jobs + 1 /\ jobs < MaxJobs
  BY <1>2 DEF StartTurn
<1> HIDE DEF w
<1>7. 0 \in Used
  BY DEF Used, IInv, WorkInv, TypeOK
<1>8. Fits(w)
  BY <1>5, <1>7 DEF Fits, Changing, Refreshers, Using, Idle
<1>9. Good(w)
  BY <1>3, <1>5, <1>8 DEF Good, Refreshers, Catalogued
<1>10. task[t].at = "idle" /\ task[t].job = "none" /\ "none" \notin DOMAIN Operations
  BY <1>6 DEF Idle, Operations
<1>11. Stays(t, w)
  BY <1>5, <1>10 DEF Stays
<1>12. jobs' \in 0..MaxJobs
  BY <1>6, Waiting, BoundsAssumption
<1>13. UNCHANGED <<kind, environment, disk, memory, refreshing, catalog, server, stale, logins, outcome, excused>>
       /\ UNCHANGED shown
  BY DEF StartTurn, login, service, history
<1>14. task[t].at \notin Refreshers \cup {"clear", "read", "store"}
  BY <1>10 DEF Refreshers
<1> QED
  BY <1>6, <1>9, <1>11, <1>12, <1>13, <1>14, GoesOn

LEMMA LoadedIsKnown ==
  ASSUME WorkInv
  PROVE  Loaded(disk) \in Tokens /\ Loaded(disk).login \in Used
<1>1. disk \in Tokens /\ disk.login \in 0..logins
  BY DEF WorkInv, TypeOK, LoginsKnown
<1>2. EnvironmentKey \in 1..EnvironmentKey
  BY BoundsAssumption DEF EnvironmentKey
<1> QED
  BY <1>1, <1>2 DEF Loaded, Used, Tokens, Token

LEMMA ReadFileStep ==
  ASSUME IInv, NEW t \in Tasks, ReadFile(t)
  PROVE  IInv'
<1> DEFINE s == task[t]
           w == [s EXCEPT !.token = Loaded(disk), !.at = "store"]
<1>1. s \in Works /\ Fits(s) /\ s.at = "read" /\ jobs \in 0..MaxJobs
  BY Waiting DEF ReadFile, At
<1>2. Loaded(disk) \in Tokens /\ Loaded(disk).login \in Used
  BY LoadedIsKnown DEF IInv
<1>3. Goes(t, w)
  BY DEF ReadFile
<1> HIDE DEF s
<1>4. w \in Works
  BY <1>1, <1>2 DEF Works, Places
<1>5. /\ w.at = "store" /\ w.token = Loaded(disk) /\ w.job = s.job /\ w.next = s.next /\ w.models = s.models
      /\ w.fresh = s.fresh /\ w.login = s.login
  BY <1>1 DEF Works
<1> HIDE DEF w
<1>6. s.job \in DOMAIN Operations /\ ~s.fresh /\ s.models = 0
  BY <1>1 DEF Fits, Changing
<1>7. Fits(w)
  BY <1>1, <1>2, <1>5, <1>6 DEF Fits, Changing, Refreshers, Using, Idle
<1>8. Good(w) /\ Stays(t, w)
  BY <1>4, <1>5, <1>6, <1>7 DEF Good, Stays, Refreshers, Catalogued
<1>9. UNCHANGED <<kind, environment, disk, memory, refreshing, catalog, server, stale, logins, outcome, excused>>
      /\ UNCHANGED <<shown, jobs>>
  BY DEF ReadFile, login, service, history
<1>10. task[t].at \notin Refreshers \cup {"clear"} /\ w.at \in {"read", "store"}
  BY <1>1, <1>5 DEF Refreshers, s
<1> QED
  BY <1>1, <1>3, <1>8, <1>9, <1>10, GoesOn

\* A task that goes on where Codex refreshes.
LEMMA WaitsStep ==
  ASSUME IInv, NEW t \in Tasks, NEW place \in {"lock", "take"}, task[t].at \in {"auth", "lock"}, kind = "codex",
         Goes(t, [task[t] EXCEPT !.at = place]),
         UNCHANGED <<kind, environment, disk, memory, refreshing, catalog, server, stale, logins, outcome, excused>>,
         UNCHANGED <<shown, jobs>>
  PROVE  IInv'
<1> DEFINE s == task[t]
           w == [s EXCEPT !.at = place]
<1>1. s \in Works /\ Fits(s) /\ jobs \in 0..MaxJobs /\ (s.fresh /\ Clean => s.login = memory.login)
  BY Waiting
<1>2. s.at \in {"auth", "lock"} /\ Goes(t, w)
  OBVIOUS
<1>3. w \in Works
  BY <1>1 DEF Works, Places
<1>4. /\ w.at = place /\ w.token = s.token /\ w.job = s.job /\ w.next = s.next /\ w.models = s.models
      /\ w.fresh = s.fresh /\ w.login = s.login
  BY <1>1 DEF Works
<1> HIDE DEF w
<1>5. Fits(w)
  BY <1>1, <1>2, <1>4 DEF Fits, Changing, Refreshers, Using, Idle
<1>6. Good(w) /\ Stays(t, w)
  BY <1>1, <1>3, <1>4, <1>5 DEF Good, Stays, Refreshers, Catalogued
<1>7. task[t].at \notin Refreshers \cup {"clear", "read", "store"}
  BY <1>2 DEF Refreshers
<1> QED
  BY <1>1, <1>2, <1>6, <1>7, GoesOn

LEMMA AuthStep ==
  ASSUME IInv, NEW t \in Tasks, Auth(t)
  PROVE  IInv'
<1>1. /\ UNCHANGED <<kind, environment, disk, memory, refreshing, catalog, server, stale, logins, outcome, excused>>
      /\ UNCHANGED <<shown, jobs>>
  BY DEF Auth, login, service, history
<1>2. CASE memory \in stale
  <2>1. kind = "codex"
    BY <1>2 DEF IInv, WorkInv, LockHeld
  <2>2. Goes(t, [task[t] EXCEPT !.at = "lock"]) /\ task[t].at = "auth"
    BY <1>2 DEF Auth, At
  <2> QED
    BY <1>1, <2>1, <2>2, WaitsStep
<1>3. CASE memory \notin stale
  BY <1>1, <1>3, TakesStep DEF Auth, At
<1> QED
  BY <1>2, <1>3

LEMMA TakeTokenStep ==
  ASSUME IInv, NEW t \in Tasks, TakeToken(t)
  PROVE  IInv'
  BY TakesStep DEF TakeToken, At, login, service, history

LEMMA SeeModelsStep ==
  ASSUME IInv, NEW t \in Tasks, SeeModels(t)
  PROVE  IInv'
<1> DEFINE s == task[t]
<1>1. s \in Works /\ Fits(s) /\ jobs \in 0..MaxJobs /\ (s.fresh /\ Clean => s.login = memory.login) /\ s.at = "models"
  BY Waiting DEF SeeModels, At
<1>2. /\ UNCHANGED <<kind, environment, disk, memory, refreshing, catalog, server, stale, logins, outcome, excused>>
      /\ UNCHANGED <<shown, jobs>>
  BY DEF SeeModels, login, service, history
<1>3. catalog \in 0..EnvironmentKey /\ catalog \in 0..Public
  BY BoundsAssumption DEF IInv, WorkInv, TypeOK, EnvironmentKey, Public
<1>4. task[t].at \notin Refreshers \cup {"clear", "read", "store"}
  BY <1>1 DEF Refreshers
<1>5. s.models = 0 /\ s.token.login \in Used
  BY <1>1 DEF Fits
<1>6. CASE catalog # 0
  <2> DEFINE w == [s EXCEPT !.models = catalog, !.at = "publish"]
  <2>1. Goes(t, w)
    BY <1>6 DEF SeeModels
  <2>2. w \in Works
    BY <1>1, <1>3 DEF Works, Places
  <2>3. /\ w.at = "publish" /\ w.token = s.token /\ w.job = s.job /\ w.next = s.next /\ w.models = catalog
        /\ w.fresh = s.fresh /\ w.login = s.login
    BY <1>1 DEF Works
  <2> HIDE DEF w
  <2>4. Fits(w)
    BY <1>1, <1>5, <2>3 DEF Fits, Changing, Refreshers, Using, Idle
  <2>5. Undisturbed /\ ~Clearing => catalog \in ModelsOf(memory.login)
    BY <1>6 DEF IInv, WorkInv, CatalogSound, ModelsOf
  <2>6. Good(w) /\ Stays(t, w)
    BY <1>1, <2>2, <2>3, <2>4, <2>5 DEF Good, Stays, Refreshers, Catalogued
  <2> QED
    BY <1>1, <1>2, <1>4, <2>1, <2>6, GoesOn
<1>7. CASE catalog = 0
  <2> DEFINE w == [s EXCEPT !.at = "auth", !.next = "fetch", !.again = FALSE]
  <2>1. Goes(t, w)
    BY <1>7 DEF SeeModels
  <2>2. w \in Works
    BY <1>1 DEF Works, Places
  <2>3. /\ w.at = "auth" /\ w.token = s.token /\ w.job = s.job /\ w.next = "fetch" /\ w.models = s.models
        /\ w.fresh = s.fresh /\ w.login = s.login
    BY <1>1 DEF Works
  <2> HIDE DEF w
  <2>4. Fits(w)
    BY <1>1, <1>5, <2>3 DEF Fits, Changing, Refreshers, Using, Idle
  <2>5. Good(w) /\ Stays(t, w)
    BY <1>1, <2>2, <2>3, <2>4 DEF Good, Stays, Refreshers, Catalogued
  <2> QED
    BY <1>1, <1>2, <1>4, <2>1, <2>5, GoesOn
<1> QED
  BY <1>6, <1>7

LEMMA SendAnsweredStep ==
  ASSUME IInv, NEW t \in Tasks, SendAnswered(t)
  PROVE  IInv'
<1>1. /\ UNCHANGED <<kind, environment, disk, memory, refreshing, catalog, server, stale, logins, outcome, excused>>
      /\ UNCHANGED <<shown, jobs>>
  BY DEF SendAnswered, login, service, history
<1>2. task[t].at = "send"
  BY DEF SendAnswered, At
<1>3. CASE Goes(t, Unauthorized(t))
  BY <1>1, <1>2, <1>3, RefusedStep
<1>4. CASE Goes(t, Failed(t))
  BY <1>1, <1>2, <1>4, FailsStep
<1>5. CASE Goes(t, Publication("publish"))
  <2>1. PICK w \in Works : w = Publication("publish")
    BY NewPublication
  <2>2. w.job = "publish" /\ w.at = "auth" /\ w.next = "models" /\ w.token.login = 0 /\ w.models = 0 /\ w.fresh = FALSE
    BY NewPublication, <2>1
  <2>3. 0 \in Used
    BY DEF Used, IInv, WorkInv, TypeOK
  <2>4. Fits(w)
    BY <2>2, <2>3 DEF Fits, Changing, Refreshers, Using, Idle
  <2>5. Good(w)
    BY <2>2, <2>4 DEF Good, Refreshers, Catalogued
  <2>6. task[t].job = "turn" /\ "turn" \notin DOMAIN Operations
    BY <1>2, Waiting DEF Fits, Operations
  <2>7. Stays(t, w)
    BY <2>2, <2>6 DEF Stays
  <2>8. jobs \in 0..MaxJobs /\ task[t].at \notin Refreshers \cup {"clear", "read", "store"}
    BY <1>2, Waiting DEF Refreshers
  <2> QED
    BY <1>1, <1>5, <2>1, <2>5, <2>7, <2>8, GoesOn
<1> QED
  BY <1>3, <1>4, <1>5 DEF SendAnswered

\* A request that failed, or whose models are not kept.
LEMMA WithModelsIsGood ==
  ASSUME IInv, NEW t \in Tasks, task[t].at = "fetch", NEW models \in 0..Public,
         Undisturbed /\ ~Clearing => models \in ModelsOf(memory.login)
  PROVE  /\ WithModels(t, models) \in Works
         /\ Good(WithModels(t, models)) /\ Stays(t, WithModels(t, models))
         /\ WithModels(t, models).at = "publish" /\ WithModels(t, models).models = models
<1> DEFINE s == task[t]
           w == WithModels(t, models)
<1>1. s \in Works /\ Fits(s) /\ (s.fresh /\ Clean => s.login = memory.login) /\ s.at = "fetch"
  BY Waiting
<1>2. NoToken \in Tokens /\ NoToken.login = 0 /\ 0 \in Used
  BY DEF Tokens, NoToken, Token, Used, IInv, WorkInv, TypeOK
<1>3. w = [s EXCEPT !.models = models, !.token = NoToken, !.again = FALSE, !.at = "publish"]
  BY DEF WithModels
<1> HIDE DEF w
<1>4. w \in Works
  BY <1>1, <1>2, <1>3 DEF Works, Places
<1>5. /\ w.at = "publish" /\ w.token = NoToken /\ w.job = s.job /\ w.next = s.next /\ w.models = models
      /\ w.fresh = s.fresh /\ w.login = s.login
  BY <1>1, <1>3 DEF Works
<1>6. Fits(w)
  BY <1>1, <1>2, <1>5 DEF Fits, Changing, Refreshers, Using, Idle
<1>7. Good(w) /\ Stays(t, w)
  BY <1>1, <1>4, <1>5, <1>6 DEF Good, Stays, Refreshers, Catalogued
<1> QED
  BY <1>4, <1>5, <1>7 DEF w

LEMMA OpencodeModelsStep ==
  ASSUME IInv, NEW t \in Tasks, OpencodeModels(t)
  PROVE  IInv'
<1>1. /\ UNCHANGED <<kind, environment, disk, memory, refreshing, catalog, server, stale, logins, outcome, excused>>
      /\ UNCHANGED <<shown, jobs>>
  BY DEF OpencodeModels, login, service, history
<1>2. task[t].at = "fetch"
  BY DEF OpencodeModels, At
<1>3. CASE Goes(t, Failed(t))
  BY <1>1, <1>2, <1>3, FailsStep
<1>4. CASE Goes(t, WithModels(t, Public))
  <2>1. Public \in 0..Public /\ Public \in ModelsOf(memory.login)
    BY BoundsAssumption DEF Public, ModelsOf
  <2>2. Good(WithModels(t, Public)) /\ Stays(t, WithModels(t, Public))
    BY <1>2, <2>1, WithModelsIsGood
  <2>3. jobs \in 0..MaxJobs /\ task[t].at \notin Refreshers \cup {"clear", "read", "store"}
    BY <1>2, Waiting DEF Refreshers
  <2> QED
    BY <1>1, <1>4, <2>2, <2>3, GoesOn
<1> QED
  BY <1>3, <1>4 DEF OpencodeModels

\* The models of the token asked with are kept, and published.
LEMMA CatalogAnsweredStep ==
  ASSUME IInv, NEW t \in Tasks, task[t].at = "fetch", CatalogAnswered(t),
         UNCHANGED <<kind, environment, disk, memory, refreshing, server, stale, logins, outcome, excused>>,
         UNCHANGED <<shown, jobs>>
  PROVE  IInv'
<1> DEFINE w == WithModels(t, catalog')
<1>1. task[t] \in Works /\ Fits(task[t]) /\ jobs \in 0..MaxJobs /\ task[t].at = "fetch"
  BY Waiting
<1>2. catalog' = task[t].token.login /\ Goes(t, w)
  BY DEF CatalogAnswered
<1>3. catalog' \in 0..EnvironmentKey /\ catalog' \in 0..Public
  BY <1>1, <1>2, BoundsAssumption DEF Works, Tokens, NoToken, Token, EnvironmentKey, Public
<1>4. Undisturbed /\ ~Clearing => catalog' = memory.login
  BY <1>1, <1>2 DEF IInv, WorkInv, CatalogSound, Catalogued
<1>5. /\ w \in Works /\ Good(w) /\ Stays(t, w) /\ w.at = "publish" /\ w.models = catalog'
  <2>1. PICK models \in 0..Public : models = catalog'
    BY <1>3
  <2>2. Undisturbed /\ ~Clearing => models \in ModelsOf(memory.login)
    BY <1>4, <2>1 DEF ModelsOf
  <2>3. /\ WithModels(t, models) \in Works
        /\ Good(WithModels(t, models)) /\ Stays(t, WithModels(t, models))
        /\ WithModels(t, models).at = "publish" /\ WithModels(t, models).models = models
    BY <1>1, <2>2, WithModelsIsGood
  <2> QED
    BY <2>1, <2>3
<1> HIDE DEF w
<1>6. /\ task' \in [Tasks -> Works] /\ task'[t] = w
      /\ \A u \in Tasks : u # t => task'[u] = task[u]
  BY <1>2, <1>5, GoesTo DEF IInv, WorkInv
<1>7. TypeOK'
  BY <1>3, <1>6 DEF IInv, WorkInv, TypeOK
<1>8. LoginsKnown'
  BY DEF IInv, WorkInv, LoginsKnown, Used
<1>9. LockHeld'
  BY <1>1, <1>5, <1>6 DEF IInv, WorkInv, LockHeld, Refreshers
<1>10. WorksFit'
  BY <1>5, <1>6 DEF IInv, WorkInv, WorksFit, Good, Fits, Used
<1>11. Agrees'
  <2> SUFFICES ASSUME Clean PROVE Agrees!2'
    BY DEF Agrees, Clean
  <2>1. refreshing # t
    BY <1>1 DEF IInv, WorkInv, LockHeld, Refreshers
  <2>2. (\A u \in Tasks : task'[u].at \notin {"read", "store", "put"}) =>
          \A u \in Tasks : task[u].at \notin {"read", "store", "put"}
    BY <1>1, <1>6
  <2> QED
    BY <1>6, <2>1, <2>2 DEF IInv, WorkInv, Agrees, Loaded
<1>12. TokensCurrent'
  <2> SUFFICES ASSUME excused = {} PROVE TokensCurrent!2'
    BY DEF TokensCurrent
  <2>1. refreshing # t
    BY <1>1 DEF IInv, WorkInv, LockHeld, Refreshers
  <2>2. \A u \in Tasks : task'[u].at # "write" => task[u].at # "write"
    BY <1>1, <1>6
  <2>3. \A u \in Tasks : task'[u].at \notin {"write", "put"} => task[u].at \notin {"write", "put"}
    BY <1>1, <1>6
  <2> QED
    BY <1>6, <2>1, <2>2, <2>3 DEF IInv, WorkInv, TokensCurrent, Current
<1>13. FreshIsTrue'
  BY <1>5, <1>6 DEF IInv, WorkInv, FreshIsTrue, Clean, Good
<1>14. CatalogSound'
  <2> SUFFICES ASSUME Undisturbed, ~Clearing' PROVE CatalogSound!2'
    BY DEF CatalogSound, Undisturbed
  <2>1. ~Clearing
    BY <1>1, <1>6 DEF Clearing
  <2>2. \A u \in Tasks : Catalogued(task[u])
    BY <2>1 DEF IInv, WorkInv, CatalogSound
  <2>3. Catalogued(w)
    BY <1>5, <2>1 DEF Good
  <2> QED
    BY <1>4, <1>6, <2>1, <2>2, <2>3 DEF Catalogued, ModelsOf
<1>15. ShownSound'
  BY <1>5, <1>6, ShownStays DEF IInv, WorkInv
<1> QED
  BY <1>7, <1>8, <1>9, <1>10, <1>11, <1>12, <1>13, <1>14, <1>15 DEF IInv, WorkInv

LEMMA CodexModelsStep ==
  ASSUME IInv, NEW t \in Tasks, CodexModels(t)
  PROVE  IInv'
<1>1. /\ UNCHANGED <<kind, environment, disk, memory, refreshing, server, stale, logins, outcome, excused>>
      /\ UNCHANGED <<shown, jobs>>
  BY DEF CodexModels, login, service, history
<1>2. task[t].at = "fetch"
  BY DEF CodexModels, At
<1>3. CASE CatalogAnswered(t)
  BY <1>1, <1>2, <1>3, CatalogAnsweredStep
<1>4. CASE Goes(t, Unauthorized(t)) /\ UNCHANGED catalog
  BY <1>1, <1>2, <1>4, RefusedStep
<1>5. CASE Goes(t, Failed(t)) /\ UNCHANGED catalog
  BY <1>1, <1>2, <1>5, FailsStep
<1> QED
  BY <1>3, <1>4, <1>5 DEF CodexModels

LEMMA OllamaModelsStep ==
  ASSUME IInv, NEW t \in Tasks, OllamaModels(t)
  PROVE  IInv'
<1>1. /\ UNCHANGED <<kind, environment, disk, memory, refreshing, server, stale, logins, outcome, excused>>
      /\ UNCHANGED <<shown, jobs>>
  BY DEF OllamaModels, login, service, history
<1>2. task[t].at = "fetch"
  BY DEF OllamaModels, At
<1>3. CASE CatalogAnswered(t)
  BY <1>1, <1>2, <1>3, CatalogAnsweredStep
<1>4. CASE Goes(t, Failed(t)) /\ UNCHANGED catalog
  BY <1>1, <1>2, <1>4, FailsStep
<1> QED
  BY <1>3, <1>4 DEF OllamaModels

-----------------------------------------------------------------------------
(* What is shown changes; time passes.                                     *)

LEMMA StartOperationStep ==
  ASSUME IInv, NEW t \in Tasks, StartOperation(t)
  PROVE  IInv'
<1>1. PICK op \in DOMAIN Operations :
         shown' = [shown EXCEPT !.lifecycle = Operations[op]] /\ Goes(t, Job(op, FirstStep(op)))
  BY DEF StartOperation
<1>2. FirstStep(op) \in {"exchange", "save", "revoke", "remove", "read"} /\ Operations[op] \in Busy
  BY <1>1 DEF FirstStep, Operations, Busy
<1>3. FirstStep(op) \in Places /\ op \in {"none", "start", "turn", "publish"} \cup DOMAIN Operations
  BY <1>2 DEF Places
<1>4. PICK w \in Works : w = Job(op, FirstStep(op))
  BY <1>3, NewWork
<1>5. /\ w.job = op /\ w.at = FirstStep(op) /\ w.next = "idle" /\ w.token.login = 0 /\ w.models = 0
      /\ w.fresh = FALSE
  BY <1>3, <1>4, NewWork
<1>6. task[t] = Idle /\ jobs' = jobs + 1 /\ jobs < MaxJobs /\ jobs \in 0..MaxJobs
  BY Waiting DEF StartOperation
<1>7. 0 \in Used
  BY DEF Used, IInv, WorkInv, TypeOK
<1>8. Fits(w)
  BY <1>2, <1>5, <1>7 DEF Fits, Changing, Refreshers, Using, Idle
<1>9. Good(w)
  BY <1>2, <1>5, <1>8 DEF Good, Refreshers, Catalogued
<1>10. task[t].at = "idle"
  BY <1>6 DEF Idle
<1>11. shown \in Shows
  BY DEF IInv, WorkInv, TypeOK, Shows
<1>12. shown' \in Shows
  BY <1>1, <1>2, <1>11 DEF Shows
<1>13. jobs' \in 0..MaxJobs
  BY <1>6, BoundsAssumption
<1>14. UNCHANGED <<kind, environment, disk, memory, refreshing, catalog, server, stale, logins, outcome, excused>>
  BY DEF StartOperation, login, service, history
<1>15. task[t].at \notin Refreshers \cup {"clear", "read", "store"}
  BY <1>10 DEF Refreshers
<1>16. WorkInv'
  BY <1>1, <1>4, <1>9, <1>12, <1>13, <1>14, <1>15, QuietMove DEF IInv
<1>17. task'[t] = w
  BY <1>1, <1>4, GoesTo DEF IInv, WorkInv
<1>18. Operating' /\ Working'
  BY <1>1, <1>2, <1>5, <1>17 DEF Operating, Working
<1>19. ShownSound'
  BY <1>18 DEF ShownSound
<1> QED
  BY <1>16, <1>19 DEF IInv

LEMMA PublishStep ==
  ASSUME IInv, NEW t \in Tasks, Publish(t)
  PROVE  IInv'
<1>1. task[t] \in Works /\ Fits(task[t]) /\ task[t].at = "publish" /\ jobs \in 0..MaxJobs
  BY Waiting DEF Publish, At
<1>2. Goes(t, Idle) /\ jobs' = jobs
  BY DEF Publish
<1>3. UNCHANGED <<kind, environment, disk, memory, refreshing, catalog, server, stale, logins, outcome, excused>>
  BY DEF Publish, login, service, history
<1>4. NoToken.login = 0 /\ 0 \in Used
  BY DEF NoToken, Token, Used, IInv, WorkInv, TypeOK
<1>5. /\ Idle.job = "none" /\ Idle.at = "idle" /\ Idle.next = "idle" /\ Idle.token = NoToken /\ Idle.models = 0
      /\ Idle.fresh = FALSE
  BY DEF Idle
<1>6. Idle \in Works
  <2>1. EnvironmentKey \in Nat /\ Public \in Nat
    BY BoundsAssumption DEF EnvironmentKey, Public
  <2> QED
    BY <2>1 DEF Idle, Works, Places, Tokens, NoToken, Token
<1>7. Good(Idle)
  <2>1. Fits(Idle)
    BY <1>4, <1>5 DEF Fits, Changing, Refreshers, Using
  <2> QED
    BY <1>5, <1>6, <2>1 DEF Good, Refreshers, Catalogued
<1>8. shown' = [lifecycle |-> Lifecycle(t), login |-> task[t].login, models |-> task[t].models,
                fresh |-> task[t].fresh]
  BY DEF Publish
<1>9. /\ Lifecycle(t) \in {"failed", "loginRequired", "loggedIn"}
      /\ Lifecycle(t) # "failed" => task[t].ok
  BY <1>1 DEF Lifecycle, Works
<1>10. shown' \in Shows
  BY <1>1, <1>8, <1>9 DEF Shows, Works
<1>11. WorkInv'
  <2>1. task[t].at \notin Refreshers \cup {"clear", "read", "store"}
    BY <1>1 DEF Refreshers
  <2> QED
    BY <1>1, <1>2, <1>3, <1>6, <1>7, <1>10, <2>1, QuietMove DEF IInv
<1>12. /\ task'[t] = Idle
       /\ \A u \in Tasks : u # t => task'[u] = task[u]
  BY <1>2, <1>6, GoesTo DEF IInv, WorkInv
<1>13. ASSUME Undisturbed, task[t].fresh, task[t].ok
       PROVE  Operating' \/ (task[t].login = memory.login /\ task[t].models \in ModelsOf(memory.login))
  <2>1. task[t].login = memory.login
    BY <1>13, Waiting DEF Undisturbed, Clean
  <2>2. CASE Clearing
    <3>1. PICK u \in Tasks : task[u].at = "clear"
      BY <2>2 DEF Clearing
    <3>2. u # t /\ task[u].job \in DOMAIN Operations
      BY <1>1, <3>1 DEF IInv, WorkInv, WorksFit, Fits, Changing
    <3> QED
      BY <1>12, <3>2 DEF Operating
  <2>3. CASE ~Clearing
    BY <1>1, <1>13, <2>1, <2>3 DEF IInv, WorkInv, CatalogSound, Catalogued
  <2> QED
    BY <2>2, <2>3
<1>14. ShownSound'
  <2>1. /\ shown'.lifecycle = Lifecycle(t) /\ shown'.login = task[t].login /\ shown'.models = task[t].models
        /\ shown'.fresh = task[t].fresh
    BY <1>8
  <2>2. Lifecycle(t) \notin Busy
    BY <1>9 DEF Busy
  <2> QED
    BY <1>3, <1>9, <1>13, <2>1, <2>2 DEF ShownSound, Undisturbed, ModelsOf
<1> QED
  BY <1>11, <1>14 DEF IInv

LEMMA ExpireStep ==
  ASSUME IInv, Expire
  PROVE  IInv'
<1>1. /\ UNCHANGED <<kind, environment, disk, memory, refreshing, catalog, server, logins, outcome, excused>>
      /\ UNCHANGED <<shown, task, jobs>>
  BY DEF Expire, login, history
<1>2. stale' = stale \cup {memory} /\ kind = "codex" /\ memory # NoToken
  BY DEF Expire
<1>3. TypeOK'
  BY <1>1, <1>2 DEF IInv, WorkInv, TypeOK
<1>4. LoginsKnown' /\ LockHeld'
  BY <1>1, <1>2 DEF IInv, WorkInv, LoginsKnown, LockHeld, Used
<1>5. WorksFit'
  BY <1>1 DEF IInv, WorkInv, WorksFit, Fits, Used
<1>6. Agrees'
  BY <1>1 DEF IInv, WorkInv, Agrees, Clean, Loaded
<1>7. TokensCurrent'
  BY <1>1 DEF IInv, WorkInv, TokensCurrent, Current
<1>8. FreshIsTrue'
  BY <1>1 DEF IInv, WorkInv, FreshIsTrue, Clean
<1>9. CatalogSound'
  BY <1>1 DEF IInv, WorkInv, CatalogSound, Undisturbed, Clearing, Catalogued, ModelsOf
<1>10. ShownSound'
  BY <1>1 DEF IInv, ShownSound, Undisturbed, Operating, Working, ModelsOf
<1> QED
  BY <1>3, <1>4, <1>5, <1>6, <1>7, <1>8, <1>9, <1>10 DEF IInv, WorkInv

-----------------------------------------------------------------------------
(* The steps that change the login.                                        *)

\* What is excused stays so.
LEMMA StillClean ==
  ASSUME excused \subseteq excused'
  PROVE  /\ Clean' => Clean
         /\ Undisturbed' => Undisturbed
         /\ excused' = {} => excused = {}
         /\ Undisturbed => Clean
  BY DEF Clean, Undisturbed

\* The lock is kept where the task neither has it nor takes it.
LEMMA LockStays ==
  ASSUME LockHeld, NEW t \in Tasks, task[t].at \notin Refreshers, task'[t].at \notin Refreshers,
         \A u \in Tasks : u # t => task'[u].at = task[u].at,
         refreshing' = refreshing, kind' = kind, environment' = environment, stale' = stale
  PROVE  LockHeld' /\ refreshing # t
  BY DEF LockHeld

LEMMA SavesLoginStep ==
  ASSUME IInv, NEW t \in Tasks, task[t].at \in {"exchange", "save"}, SavesLogin(t), IsRead(t),
         UNCHANGED <<kind, environment, memory, refreshing, catalog, shown, stale, jobs, outcome>>
  PROVE  IInv'
<1> DEFINE s == task[t]
           w == [s EXCEPT !.at = "read"]
<1>1. s \in Works /\ Fits(s) /\ s.at \in {"exchange", "save"}
  BY Waiting
<1>2. /\ logins < MaxLogins /\ disk' = NewLogin /\ server' = [server EXCEPT ![logins + 1] = 1]
      /\ logins' = logins + 1 /\ excused' = excused \cup Crossing(t) /\ Goes(t, w)
  BY DEF SavesLogin, IsRead
<1>3. logins \in Nat /\ MaxLogins \in Nat /\ logins + 1 \in 1..MaxLogins /\ logins + 1 \in 1..EnvironmentKey
  BY <1>2, BoundsAssumption DEF IInv, WorkInv, TypeOK, EnvironmentKey
<1>4. w \in Works
  BY <1>1 DEF Works, Places
<1>5. /\ w.at = "read" /\ w.token = s.token /\ w.job = s.job /\ w.next = s.next /\ w.models = s.models
      /\ w.fresh = s.fresh /\ w.login = s.login
  BY <1>1 DEF Works
<1>6. s.job \in DOMAIN Operations /\ ~s.fresh /\ s.models = 0
  BY <1>1 DEF Fits, Changing
<1> HIDE DEF w
<1>7. /\ task' \in [Tasks -> Works] /\ task'[t] = w
      /\ \A u \in Tasks : u # t => task'[u] = task[u]
  BY <1>2, <1>4, GoesTo DEF IInv, WorkInv
<1>8. excused \subseteq excused' /\ excused' \subseteq Excuses
  BY <1>2 DEF Crossing, IInv, WorkInv, TypeOK, Excuses
<1>9. disk' \in Tokens /\ disk'.login = logins + 1 /\ disk'.number = 1
  BY <1>2, <1>3 DEF NewLogin, Token, Tokens
<1>10. TypeOK'
  <2>1. logins' \in 0..MaxLogins
    BY <1>2, <1>3
  <2>2. server' \in [1..MaxLogins -> Nat]
    BY <1>2, <1>3 DEF IInv, WorkInv, TypeOK
  <2> QED
    BY <1>7, <1>8, <1>9, <2>1, <2>2 DEF IInv, WorkInv, TypeOK
<1>11. Used \subseteq Used' /\ logins \in 0..logins'
  BY <1>2, <1>3 DEF Used
<1>12. LoginsKnown'
  BY <1>2, <1>3, <1>9, <1>11 DEF IInv, WorkInv, LoginsKnown
<1>13. LockHeld' /\ refreshing # t
  BY <1>1, <1>5, <1>7, LockStays DEF IInv, WorkInv, Refreshers
<1>14. WorksFit'
  <2> SUFFICES ASSUME NEW u \in Tasks PROVE Fits(task[u])'
    BY DEF WorksFit
  <2>1. task[u].token.login \in Used /\ Fits(task[u])
    BY DEF IInv, WorkInv, WorksFit, Fits
  <2>2. CASE u = t
    BY <1>1, <1>5, <1>6, <1>7, <1>11, <2>1, <2>2 DEF Fits, Changing, Using, Refreshers, Idle
  <2>3. CASE u # t
    <3>1. task'[u] = task[u]
      BY <1>7, <2>3
    <3>2. task[u].token.login \in 1..logins => task[u].token.login \in 1..logins'
      BY <1>2, <1>3
    <3> QED
      BY <1>11, <2>1, <3>1, <3>2 DEF Fits
  <2> QED
    BY <2>2, <2>3
<1>15. Clean' => refreshing \notin Tasks
  BY <1>2, <1>13 DEF Clean, Crossing
<1>16. Agrees'
  <2>1. Clean' => Clean
    BY <1>8, StillClean
  <2> QED
    BY <1>5, <1>7, <1>15, <2>1 DEF IInv, WorkInv, Agrees
<1>17. TokensCurrent'
  <2> SUFFICES ASSUME excused' = {} PROVE TokensCurrent!2'
    BY DEF TokensCurrent
  <2>1. excused = {} /\ refreshing \notin Tasks
    BY <1>8, <1>15 DEF Clean
  <2>2. \A u \in Tasks : task[u].at \notin {"write", "put"}
    BY <2>1 DEF IInv, WorkInv, LockHeld, Refreshers
  <2>3. Current(disk)'
    BY <1>2, <1>3, <1>9 DEF Current, IInv, WorkInv, TypeOK
  <2>4. Current(memory)
    BY <2>1, <2>2 DEF IInv, WorkInv, TokensCurrent
  <2>5. Current(memory)'
    <3>1. memory.login # logins + 1 \/ memory.login \notin 1..MaxLogins
      BY <1>3 DEF IInv, WorkInv, LoginsKnown, Used, EnvironmentKey
    <3> QED
      BY <1>2, <1>3, <2>4, <3>1 DEF Current, IInv, WorkInv, TypeOK
  <2> QED
    BY <2>1, <2>3, <2>5
<1>18. FreshIsTrue'
  BY <1>5, <1>6, <1>7, <1>8, StillClean DEF IInv, WorkInv, FreshIsTrue
<1>19. CatalogSound'
  <2> SUFFICES ASSUME Undisturbed', ~Clearing' PROVE CatalogSound!2'
    BY DEF CatalogSound
  <2>1. Undisturbed /\ ~Clearing
    BY <1>1, <1>7, <1>8, StillClean DEF Clearing
  <2> QED
    BY <1>5, <1>7, <2>1 DEF IInv, WorkInv, CatalogSound, Catalogued, ModelsOf
<1>20. ShownSound'
  BY <1>5, <1>7, <1>8, ShownStays DEF IInv, WorkInv, Stays
<1> QED
  BY <1>10, <1>12, <1>13, <1>14, <1>16, <1>17, <1>18, <1>19, <1>20 DEF IInv, WorkInv

\* Who holds the lock is the one that refreshes, for Codex.
LEMMA Refreshing ==
  ASSUME IInv, NEW t \in Tasks, task[t].at \in Refreshers
  PROVE  /\ refreshing = t /\ kind = "codex" /\ ~environment /\ task[t].token.login \in 1..logins
         /\ task[t].token.login \in 1..MaxLogins /\ task[t].models = 0
         /\ \A u \in Tasks : u # t => task[u].at \notin Refreshers
<1>1. refreshing = t /\ \A u \in Tasks : u # t => task[u].at \notin Refreshers
  BY DEF IInv, WorkInv, LockHeld
<1>2. kind = "codex" /\ task[t].token.login \in 1..logins /\ task[t].models = 0
  BY DEF IInv, WorkInv, WorksFit, Fits, Refreshers
<1>3. ~environment
  BY <1>2 DEF IInv, WorkInv, LockHeld
<1>4. task[t].token.login \in 1..MaxLogins
  BY <1>2, BoundsAssumption DEF IInv, WorkInv, TypeOK
<1> QED
  BY <1>1, <1>2, <1>3, <1>4

\* The file was changed, and an error kept it from being read: of the login in use
\* nothing is promised then, but all work goes on.
LEMMA UnreadStep ==
  ASSUME IInv, NEW t \in Tasks, task[t].at \in {"exchange", "save", "write"}, IsUnread(t),
         disk' \in Tokens, disk'.login \in 0..logins', server' \in [1..MaxLogins -> Nat],
         logins' \in logins..MaxLogins,
         refreshing' = IF task[t].at = "write" THEN Nobody ELSE refreshing,
         UNCHANGED <<kind, environment, memory, catalog, shown, stale, jobs, outcome>>
  PROVE  IInv'
<1>1. Good(Failed(t)) /\ Stays(t, Failed(t))
  BY FailedIsGood DEF IInv
<1> DEFINE w == Failed(t)
<1>2. w \in Works /\ Fits(w) /\ w.at \notin Refreshers \cup {"clear"} /\ Stays(t, w)
  BY <1>1 DEF Good
<1>3. Goes(t, w) /\ excused' = excused \cup {"unread"}
  BY DEF IsUnread
<1> HIDE DEF w
<1>4. /\ task' \in [Tasks -> Works] /\ task'[t] = w
      /\ \A u \in Tasks : u # t => task'[u] = task[u]
  BY <1>2, <1>3, GoesTo DEF IInv, WorkInv
<1>5. excused \subseteq excused' /\ excused' \subseteq Excuses
  BY <1>3 DEF IInv, WorkInv, TypeOK, Excuses
<1>6. ~Clean' /\ ~Undisturbed' /\ excused' # {}
  BY <1>3 DEF Clean, Undisturbed
<1>7. logins \in 0..MaxLogins /\ logins' \in 0..MaxLogins /\ MaxLogins \in Nat
  BY BoundsAssumption DEF IInv, WorkInv, TypeOK
<1>8. TypeOK'
  <2>1. refreshing' \in Tasks \cup {Nobody}
    BY DEF IInv, WorkInv, TypeOK
  <2> QED
    BY <1>4, <1>5, <1>7, <2>1 DEF IInv, WorkInv, TypeOK
<1>9. 0..logins \subseteq 0..logins' /\ 1..logins \subseteq 1..logins'
  BY <1>7
<1>10. Used \subseteq Used'
  BY <1>9 DEF Used
<1>11. LoginsKnown'
  BY <1>10 DEF IInv, WorkInv, LoginsKnown
<1>12. LockHeld'
  <2>1. CASE task[t].at = "write"
    <3>1. \A u \in Tasks : u # t => task[u].at \notin Refreshers
      BY <2>1, Refreshing DEF Refreshers
    <3> QED
      BY <1>2, <1>4, <2>1, <3>1, BoundsAssumption DEF IInv, WorkInv, LockHeld
  <2>2. CASE task[t].at # "write"
    <3>1. task[t].at \notin Refreshers
      BY <2>2 DEF Refreshers
    <3> QED
      BY <1>2, <1>4, <2>2, <3>1 DEF IInv, WorkInv, LockHeld
  <2> QED
    BY <2>1, <2>2
<1>13. WorksFit'
  <2> SUFFICES ASSUME NEW u \in Tasks PROVE Fits(task[u])'
    BY DEF WorksFit
  <2>1. Fits(task'[u])
    BY <1>2, <1>4 DEF IInv, WorkInv, WorksFit
  <2> QED
    BY <1>9, <1>10, <2>1 DEF Fits
<1>14. Agrees' /\ TokensCurrent' /\ FreshIsTrue' /\ CatalogSound' /\ ShownSound'
  BY <1>6 DEF Agrees, TokensCurrent, FreshIsTrue, CatalogSound, ShownSound
<1> QED
  BY <1>8, <1>11, <1>12, <1>13, <1>14 DEF IInv, WorkInv

\* A login that is saved is one the service knows.
LEMMA SavedIsKnown ==
  ASSUME IInv, NEW t \in Tasks, SavesLogin(t)
  PROVE  /\ disk' \in Tokens /\ disk'.login \in 0..logins' /\ server' \in [1..MaxLogins -> Nat]
         /\ logins' \in logins..MaxLogins
<1>1. logins \in Nat /\ MaxLogins \in Nat /\ logins < MaxLogins /\ logins' = logins + 1
  BY BoundsAssumption DEF SavesLogin, IInv, WorkInv, TypeOK
<1>2. logins + 1 \in 1..EnvironmentKey /\ logins + 1 \in 1..MaxLogins
  BY <1>1 DEF EnvironmentKey
<1>3. disk' \in Tokens /\ disk'.login = logins + 1
  BY <1>2 DEF SavesLogin, NewLogin, Token, Tokens
<1>4. server' \in [1..MaxLogins -> Nat]
  BY <1>2 DEF SavesLogin, IInv, WorkInv, TypeOK
<1> QED
  BY <1>1, <1>3, <1>4

LEMMA ExchangeStep ==
  ASSUME IInv, NEW t \in Tasks, Exchange(t)
  PROVE  IInv'
<1>1. task[t].at = "exchange" /\ UNCHANGED <<kind, environment, memory, refreshing, catalog, shown, stale, jobs, outcome>>
  BY DEF Exchange, At
<1>2. CASE SavesLogin(t) /\ IsRead(t)
  BY <1>1, <1>2, SavesLoginStep
<1>3. CASE SavesLogin(t) /\ IsUnread(t)
  BY <1>1, <1>3, SavedIsKnown, UnreadStep
<1>4. CASE Goes(t, Failed(t)) /\ UNCHANGED <<disk, server, logins, excused>>
  BY <1>1, <1>4, FailsStep
<1> QED
  BY <1>2, <1>3, <1>4 DEF Exchange

LEMMA SaveKeyStep ==
  ASSUME IInv, NEW t \in Tasks, SaveKey(t)
  PROVE  IInv'
<1>1. task[t].at = "save" /\ UNCHANGED <<kind, environment, memory, refreshing, catalog, shown, stale, jobs, outcome>>
  BY DEF SaveKey, At
<1>2. CASE SavesLogin(t) /\ IsRead(t)
  BY <1>1, <1>2, SavesLoginStep
<1>3. CASE disk' = NoToken /\ IsUnread(t) /\ UNCHANGED <<server, logins>>
  <2>1. /\ disk' \in Tokens /\ disk'.login \in 0..logins' /\ server' \in [1..MaxLogins -> Nat]
        /\ logins' \in logins..MaxLogins
    BY <1>3, BoundsAssumption DEF IInv, WorkInv, TypeOK, NoToken, Token, Tokens
  <2> QED
    BY <1>1, <1>3, <2>1, UnreadStep
<1>4. CASE Goes(t, Failed(t)) /\ UNCHANGED <<disk, server, logins, excused>>
  BY <1>1, <1>4, FailsStep
<1> QED
  BY <1>2, <1>3, <1>4 DEF SaveKey

LEMMA RevokeStep ==
  ASSUME IInv, NEW t \in Tasks, Revoke(t)
  PROVE  IInv'
<1> DEFINE s == task[t]
           w == [s EXCEPT !.at = "remove"]
<1>1. s \in Works /\ Fits(s) /\ s.at = "revoke"
  BY Waiting DEF Revoke, At
<1>2. /\ UNCHANGED <<kind, environment, disk, memory, refreshing, catalog, stale, logins, outcome, excused>>
      /\ UNCHANGED <<shown, jobs>>
  BY DEF Revoke, login, history
<1>3. Goes(t, w) /\ server' \in {server} \cup IF disk = NoToken THEN {} ELSE {[server EXCEPT ![disk.login] = 0]}
  BY DEF Revoke
<1>4. w \in Works
  BY <1>1 DEF Works, Places
<1>5. /\ w.at = "remove" /\ w.token = s.token /\ w.job = s.job /\ w.next = s.next /\ w.models = s.models
      /\ w.fresh = s.fresh /\ w.login = s.login
  BY <1>1 DEF Works
<1>6. s.job \in DOMAIN Operations /\ ~s.fresh /\ s.models = 0
  BY <1>1 DEF Fits, Changing
<1> HIDE DEF w
<1>7. /\ task' \in [Tasks -> Works] /\ task'[t] = w
      /\ \A u \in Tasks : u # t => task'[u] = task[u]
  BY <1>3, <1>4, GoesTo DEF IInv, WorkInv
<1>8. /\ server' \in [1..MaxLogins -> Nat]
      /\ \A l \in 1..MaxLogins : server'[l] \in {0, server[l]}
  <2>1. server \in [1..MaxLogins -> Nat]
    BY DEF IInv, WorkInv, TypeOK
  <2>2. CASE server' = server
    BY <2>1, <2>2
  <2>3. CASE server' = [server EXCEPT ![disk.login] = 0]
    BY <2>1, <2>3
  <2> QED
    BY <1>3, <2>2, <2>3
<1>9. TypeOK'
  BY <1>2, <1>7, <1>8 DEF IInv, WorkInv, TypeOK
<1>10. LoginsKnown'
  BY <1>2 DEF IInv, WorkInv, LoginsKnown, Used
<1>11. LockHeld' /\ refreshing # t
  BY <1>1, <1>2, <1>5, <1>7, LockStays DEF IInv, WorkInv, Refreshers
<1>12. WorksFit'
  <2> SUFFICES ASSUME NEW u \in Tasks PROVE Fits(task[u])'
    BY DEF WorksFit
  <2>1. CASE u = t
    BY <1>1, <1>2, <1>5, <1>6, <1>7, <2>1 DEF Fits, Changing, Using, Refreshers, Idle, Used
  <2>2. CASE u # t
    BY <1>2, <1>7, <2>2 DEF IInv, WorkInv, WorksFit, Fits, Used
  <2> QED
    BY <2>1, <2>2
<1>13. Agrees'
  <2> SUFFICES ASSUME Clean PROVE Agrees!2'
    BY <1>2 DEF Agrees, Clean
  <2>1. (\A u \in Tasks : task'[u].at \notin {"read", "store", "put"}) =>
          \A u \in Tasks : task[u].at \notin {"read", "store", "put"}
    BY <1>1, <1>7
  <2> QED
    BY <1>2, <1>7, <1>11, <2>1 DEF IInv, WorkInv, Agrees, Loaded
<1>14. TokensCurrent'
  <2> SUFFICES ASSUME excused = {} PROVE TokensCurrent!2'
    BY <1>2 DEF TokensCurrent
  <2>1. \A u \in Tasks : task'[u].at # "write" => task[u].at # "write"
    BY <1>1, <1>7
  <2>2. \A u \in Tasks : task'[u].at \notin {"write", "put"} => task[u].at \notin {"write", "put"}
    BY <1>1, <1>7
  <2> QED
    BY <1>2, <1>7, <1>8, <1>11, <2>1, <2>2 DEF IInv, WorkInv, TokensCurrent, Current
<1>15. FreshIsTrue'
  BY <1>2, <1>5, <1>6, <1>7 DEF IInv, WorkInv, FreshIsTrue, Clean
<1>16. CatalogSound'
  <2> SUFFICES ASSUME Undisturbed, ~Clearing' PROVE CatalogSound!2'
    BY <1>2 DEF CatalogSound, Undisturbed
  <2>1. ~Clearing
    BY <1>1, <1>7 DEF Clearing
  <2> QED
    BY <1>2, <1>5, <1>7, <2>1 DEF IInv, WorkInv, CatalogSound, Catalogued, ModelsOf
<1>17. ShownSound'
  BY <1>2, <1>5, <1>7, ShownStays DEF IInv, WorkInv, Stays
<1> QED
  BY <1>9, <1>10, <1>11, <1>12, <1>13, <1>14, <1>15, <1>16, <1>17 DEF IInv, WorkInv

LEMMA RemovedStep ==
  ASSUME IInv, NEW t \in Tasks, RemoveFile(t), disk' = NoToken, IsRead(t)
  PROVE  IInv'
<1> DEFINE s == task[t]
           w == [s EXCEPT !.at = "read"]
<1>1. s \in Works /\ Fits(s) /\ s.at = "remove"
  BY Waiting DEF RemoveFile, At
<1>2. /\ UNCHANGED <<kind, environment, memory, refreshing, catalog, server, stale, logins, outcome>>
      /\ UNCHANGED <<shown, jobs>>
  BY DEF RemoveFile, service
<1>3. Goes(t, w) /\ disk' = NoToken /\ excused' = excused \cup Crossing(t)
  BY DEF IsRead
<1>4. w \in Works
  BY <1>1 DEF Works, Places
<1>5. /\ w.at = "read" /\ w.token = s.token /\ w.job = s.job /\ w.next = s.next /\ w.models = s.models
      /\ w.fresh = s.fresh /\ w.login = s.login
  BY <1>1 DEF Works
<1>6. s.job \in DOMAIN Operations /\ ~s.fresh /\ s.models = 0
  BY <1>1 DEF Fits, Changing
<1> HIDE DEF w
<1>7. /\ task' \in [Tasks -> Works] /\ task'[t] = w
      /\ \A u \in Tasks : u # t => task'[u] = task[u]
  BY <1>3, <1>4, GoesTo DEF IInv, WorkInv
<1>8. excused \subseteq excused' /\ excused' \subseteq Excuses
  BY <1>3 DEF Crossing, IInv, WorkInv, TypeOK, Excuses
<1>9. disk' \in Tokens /\ disk'.login = 0 /\ logins \in Nat
  BY <1>3 DEF NoToken, Token, Tokens, IInv, WorkInv, TypeOK
<1>10. TypeOK'
  BY <1>2, <1>7, <1>8, <1>9 DEF IInv, WorkInv, TypeOK
<1>11. LoginsKnown'
  BY <1>2, <1>9 DEF IInv, WorkInv, LoginsKnown, Used
<1>12. LockHeld' /\ refreshing # t
  BY <1>1, <1>2, <1>5, <1>7, LockStays DEF IInv, WorkInv, Refreshers
<1>13. WorksFit'
  <2> SUFFICES ASSUME NEW u \in Tasks PROVE Fits(task[u])'
    BY DEF WorksFit
  <2>1. CASE u = t
    BY <1>1, <1>2, <1>5, <1>6, <1>7, <2>1 DEF Fits, Changing, Using, Refreshers, Idle, Used
  <2>2. CASE u # t
    BY <1>2, <1>7, <2>2 DEF IInv, WorkInv, WorksFit, Fits, Used
  <2> QED
    BY <2>1, <2>2
<1>14. Clean' => refreshing \notin Tasks
  BY <1>3, <1>12 DEF Clean, Crossing
<1>15. Agrees'
  <2>1. Clean' => Clean
    BY <1>8, StillClean
  <2> QED
    BY <1>2, <1>5, <1>7, <1>14, <2>1 DEF IInv, WorkInv, Agrees
<1>16. TokensCurrent'
  <2> SUFFICES ASSUME excused' = {} PROVE TokensCurrent!2'
    BY DEF TokensCurrent
  <2>1. excused = {} /\ refreshing \notin Tasks
    BY <1>8, <1>14 DEF Clean
  <2>2. \A u \in Tasks : task[u].at \notin {"write", "put"}
    BY <2>1 DEF IInv, WorkInv, LockHeld, Refreshers
  <2>3. Current(disk)'
    BY <1>9 DEF Current
  <2>4. Current(memory)'
    BY <1>2, <2>1, <2>2 DEF IInv, WorkInv, TokensCurrent, Current
  <2> QED
    BY <1>2, <2>1, <2>3, <2>4
<1>17. FreshIsTrue'
  BY <1>2, <1>5, <1>6, <1>7, <1>8, StillClean DEF IInv, WorkInv, FreshIsTrue
<1>18. CatalogSound'
  <2> SUFFICES ASSUME Undisturbed', ~Clearing' PROVE CatalogSound!2'
    BY DEF CatalogSound
  <2>1. Undisturbed /\ ~Clearing
    BY <1>1, <1>7, <1>8, StillClean DEF Clearing
  <2> QED
    BY <1>2, <1>5, <1>7, <2>1 DEF IInv, WorkInv, CatalogSound, Catalogued, ModelsOf
<1>19. ShownSound'
  BY <1>2, <1>5, <1>7, <1>8, ShownStays DEF IInv, WorkInv, Stays
<1> QED
  BY <1>10, <1>11, <1>12, <1>13, <1>15, <1>16, <1>17, <1>18, <1>19 DEF IInv, WorkInv

LEMMA RemoveFileStep ==
  ASSUME IInv, NEW t \in Tasks, RemoveFile(t)
  PROVE  IInv'
<1>1. CASE disk' = NoToken /\ IsRead(t)
  BY <1>1, RemovedStep
<1>2. CASE Goes(t, Failed(t)) /\ UNCHANGED <<disk, excused>>
  BY <1>2, FailsStep DEF RemoveFile, At, service
<1> QED
  BY <1>1, <1>2 DEF RemoveFile

LEMMA StoreLoginStep ==
  ASSUME IInv, NEW t \in Tasks, StoreLogin(t)
  PROVE  IInv'
<1> DEFINE s == task[t]
           w == [s EXCEPT !.at = "clear", !.token = NoToken]
<1>1. s \in Works /\ Fits(s) /\ s.at = "store"
  BY Waiting DEF StoreLogin, At
<1>2. /\ UNCHANGED <<kind, environment, disk, refreshing, catalog, server, stale, logins>>
      /\ UNCHANGED <<shown, jobs>>
  BY DEF StoreLogin, service
<1>3. /\ Changes(t, w) /\ memory' = s.token /\ outcome' = s.token.login
      /\ excused' = excused \cup IF s.token = Loaded(disk) THEN {} ELSE {"late"}
  BY DEF StoreLogin
<1>4. NoToken \in Tokens /\ NoToken.login = 0 /\ 0 \in Used
  BY DEF Tokens, NoToken, Token, Used, IInv, WorkInv, TypeOK
<1>5. w \in Works
  BY <1>1, <1>4 DEF Works, Places
<1>6. /\ w.at = "clear" /\ w.token = NoToken /\ w.job = s.job /\ w.next = s.next /\ w.models = s.models
      /\ w.fresh = s.fresh
  BY <1>1 DEF Works
<1>7. s.job \in DOMAIN Operations /\ ~s.fresh /\ s.models = 0
  BY <1>1 DEF Fits, Changing
<1> HIDE DEF w
<1>8. /\ task' \in [Tasks -> Works] /\ task'[t] = w
      /\ \A u \in Tasks : u # t =>
           /\ task'[u].at = task[u].at /\ task'[u].job = task[u].job /\ task'[u].next = task[u].next
           /\ task'[u].token = task[u].token /\ task'[u].ok = task[u].ok /\ task'[u].models = task[u].models
           /\ task'[u].fresh = FALSE
           /\ task[u] = Idle => task'[u] = Idle
  BY <1>3, <1>5, ChangesTo DEF IInv, WorkInv
<1>9. excused \subseteq excused' /\ excused' \subseteq Excuses
  <2>1. excused \subseteq Excuses
    BY DEF IInv, WorkInv, TypeOK
  <2> QED
    BY <1>3, <2>1 DEF Excuses
<1>10. memory' \in Tokens /\ memory'.login \in Used /\ outcome' \in 0..EnvironmentKey
  <2>1. s.token \in Tokens /\ s.token.login \in Used
    BY <1>1 DEF Works, Fits
  <2>2. s.token.login \in 0..EnvironmentKey
    BY <2>1, BoundsAssumption DEF Tokens, NoToken, Token, EnvironmentKey
  <2> QED
    BY <1>3, <2>1, <2>2
<1>11. TypeOK'
  BY <1>2, <1>8, <1>9, <1>10 DEF IInv, WorkInv, TypeOK
<1>12. LoginsKnown'
  BY <1>2, <1>10 DEF IInv, WorkInv, LoginsKnown, Used
<1>13. LockHeld' /\ refreshing # t
  BY <1>1, <1>2, <1>6, <1>8, LockStays DEF IInv, WorkInv, Refreshers
<1>14. WorksFit'
  <2> SUFFICES ASSUME NEW u \in Tasks PROVE Fits(task[u])'
    BY DEF WorksFit
  <2>1. CASE u = t
    BY <1>1, <1>2, <1>4, <1>6, <1>7, <1>8, <2>1 DEF Fits, Changing, Using, Refreshers, Idle, Used
  <2>2. CASE u # t
    <3>1. Fits(task[u])
      BY DEF IInv, WorkInv, WorksFit
    <3>2. task'[u].at = "idle" <=> task'[u] = Idle
      BY <1>8, <2>2, <3>1 DEF Fits, Idle
    <3> QED
      BY <1>2, <1>8, <2>2, <3>1, <3>2 DEF Fits, Used
  <2> QED
    BY <2>1, <2>2
<1>15. Clean' => s.token = Loaded(disk)
  BY <1>3 DEF Clean
<1>16. Agrees'
  <2> SUFFICES ASSUME Clean' PROVE Agrees!2'
    BY DEF Agrees
  <2>1. Clean /\ memory' = Loaded(disk)
    BY <1>3, <1>9, <1>15, StillClean
  <2>2. ASSUME NEW u \in Tasks, refreshing = u
        PROVE  /\ task'[u].token.login = memory'.login /\ disk.login = memory'.login
               /\ task'[u].at = "put" => task'[u].token = disk
               /\ task'[u].at # "put" => memory' = disk
    <3>1. u # t /\ task[u].at \in Refreshers
      BY <1>13, <2>2 DEF IInv, WorkInv, LockHeld
    <3>2. kind = "codex"
      BY <3>1 DEF IInv, WorkInv, WorksFit, Fits
    <3>3. memory' = disk
      BY <2>1, <3>2 DEF IInv, WorkInv, LockHeld, Loaded
    <3>4. task[u].token.login = disk.login /\ (task[u].at = "put" => task[u].token = disk)
      BY <2>1, <2>2 DEF IInv, WorkInv, Agrees
    <3> QED
      BY <1>8, <3>1, <3>3, <3>4
  <2> QED
    BY <1>2, <1>3, <2>1, <2>2 DEF Loaded
<1>17. TokensCurrent'
  <2> SUFFICES ASSUME excused' = {} PROVE TokensCurrent!2'
    BY DEF TokensCurrent
  <2>1. excused = {} /\ memory' = Loaded(disk)
    BY <1>3, <1>9, <1>15 DEF Clean
  <2>2. (\A u \in Tasks : task'[u].at # "write") => Current(disk)
    BY <1>1, <1>8, <2>1 DEF IInv, WorkInv, TokensCurrent
  <2>3. Current(disk) => Current(memory')
    BY <2>1, BoundsAssumption DEF Loaded, Current, Token, EnvironmentKey
  <2>4. \A u \in Tasks : refreshing = u => Current(task'[u].token)
    BY <1>8, <1>13, <2>1 DEF IInv, WorkInv, TokensCurrent
  <2> QED
    BY <1>2, <2>2, <2>3, <2>4 DEF Current
<1>18. FreshIsTrue'
  BY <1>6, <1>7, <1>8 DEF FreshIsTrue
<1>19. Clearing' /\ Operating' /\ Working'
  BY <1>6, <1>7, <1>8 DEF Clearing, Operating, Working
<1>20. CatalogSound' /\ ShownSound'
  BY <1>19 DEF CatalogSound, ShownSound
<1> QED
  BY <1>11, <1>12, <1>13, <1>14, <1>16, <1>17, <1>18, <1>20 DEF IInv, WorkInv

LEMMA ClearCatalogStep ==
  ASSUME IInv, NEW t \in Tasks, ClearCatalog(t)
  PROVE  IInv'
<1>1. task[t] \in Works /\ Fits(task[t]) /\ task[t].at = "clear"
  BY Waiting DEF ClearCatalog, At
<1>2. /\ UNCHANGED <<kind, environment, disk, memory, refreshing, server, stale, logins, outcome>>
      /\ UNCHANGED <<shown, jobs>>
  BY DEF ClearCatalog, service
<1>3. task[t].job \in DOMAIN Operations
  BY <1>1 DEF Fits, Changing
<1>4. PICK w \in Works : w = Publication(task[t].job)
  BY <1>3, NewPublication
<1>5. /\ w.job = task[t].job /\ w.at = "auth" /\ w.next = "models" /\ w.token.login = 0 /\ w.models = 0
      /\ w.fresh = FALSE
  BY <1>3, <1>4, NewPublication
<1>6. Changes(t, w) /\ catalog' = 0 /\ excused' = excused \cup IF Others(t, {"fetch"}) THEN {"fetch"} ELSE {}
  BY <1>4 DEF ClearCatalog
<1>7. /\ task' \in [Tasks -> Works] /\ task'[t] = w
      /\ \A u \in Tasks : u # t =>
           /\ task'[u].at = task[u].at /\ task'[u].job = task[u].job /\ task'[u].next = task[u].next
           /\ task'[u].token = task[u].token /\ task'[u].ok = task[u].ok /\ task'[u].models = task[u].models
           /\ task'[u].fresh = FALSE
           /\ task[u] = Idle => task'[u] = Idle
  BY <1>6, ChangesTo DEF IInv, WorkInv
<1>8. excused \subseteq excused' /\ excused' \subseteq Excuses
  <2>1. excused \subseteq Excuses
    BY DEF IInv, WorkInv, TypeOK
  <2> QED
    BY <1>6, <2>1 DEF Excuses
<1>9. 0 \in Used /\ 0 \in 0..EnvironmentKey
  BY BoundsAssumption DEF Used, EnvironmentKey, IInv, WorkInv, TypeOK
<1>10. TypeOK'
  BY <1>2, <1>6, <1>7, <1>8, <1>9 DEF IInv, WorkInv, TypeOK
<1>11. LoginsKnown'
  BY <1>2 DEF IInv, WorkInv, LoginsKnown, Used
<1>12. LockHeld' /\ refreshing # t
  BY <1>1, <1>2, <1>5, <1>7, LockStays DEF IInv, WorkInv, Refreshers
<1>13. WorksFit'
  <2> SUFFICES ASSUME NEW u \in Tasks PROVE Fits(task[u])'
    BY DEF WorksFit
  <2>1. CASE u = t
    BY <1>2, <1>5, <1>7, <1>9, <2>1 DEF Fits, Changing, Using, Refreshers, Idle, Used
  <2>2. CASE u # t
    <3>1. Fits(task[u])
      BY DEF IInv, WorkInv, WorksFit
    <3>2. task'[u].at = "idle" <=> task'[u] = Idle
      BY <1>7, <2>2, <3>1 DEF Fits, Idle
    <3> QED
      BY <1>2, <1>7, <2>2, <3>1, <3>2 DEF Fits, Used
  <2> QED
    BY <2>1, <2>2
<1>14. Agrees'
  <2> SUFFICES ASSUME Clean' PROVE Agrees!2'
    BY DEF Agrees
  <2>1. Clean
    BY <1>8, StillClean
  <2>2. (\A u \in Tasks : task'[u].at \notin {"read", "store", "put"}) =>
          \A u \in Tasks : task[u].at \notin {"read", "store", "put"}
    BY <1>1, <1>7
  <2> QED
    BY <1>2, <1>7, <1>12, <2>1, <2>2 DEF IInv, WorkInv, Agrees, Loaded
<1>15. TokensCurrent'
  <2> SUFFICES ASSUME excused' = {} PROVE TokensCurrent!2'
    BY DEF TokensCurrent
  <2>1. excused = {}
    BY <1>8
  <2>2. \A u \in Tasks : task'[u].at # "write" => task[u].at # "write"
    BY <1>1, <1>7
  <2>3. \A u \in Tasks : task'[u].at \notin {"write", "put"} => task[u].at \notin {"write", "put"}
    BY <1>1, <1>7
  <2> QED
    BY <1>2, <1>7, <1>12, <2>1, <2>2, <2>3 DEF IInv, WorkInv, TokensCurrent, Current
<1>16. FreshIsTrue'
  BY <1>5, <1>7 DEF FreshIsTrue
<1>17. CatalogSound'
  <2> SUFFICES ASSUME Undisturbed', ~Clearing' PROVE CatalogSound!2'
    BY DEF CatalogSound
  <2>1. \A u \in Tasks : u # t => task[u].at # "fetch"
    BY <1>6 DEF Undisturbed, Others
  <2>2. \A u \in Tasks : task'[u].at # "fetch" /\ ~task'[u].fresh
    BY <1>5, <1>7, <2>1
  <2> QED
    BY <1>6, <2>2 DEF Catalogued
<1>18. Operating' /\ Working'
  BY <1>3, <1>5, <1>7 DEF Operating, Working
<1>19. ShownSound'
  BY <1>18 DEF ShownSound
<1> QED
  BY <1>10, <1>11, <1>12, <1>13, <1>14, <1>15, <1>16, <1>17, <1>19 DEF IInv, WorkInv

-----------------------------------------------------------------------------
(* The steps of a refresh.                                                 *)

\* The lock is taken, with the token in memory or another one of the file.
LEMMA LocksStep ==
  ASSUME IInv, NEW t \in Tasks, NEW place, NEW token,
         \/ place = "refresh" /\ token = memory
         \/ place = "put" /\ token = disk,
         token # NoToken, task[t].at \in {"lock", "recover"}, refreshing = Nobody,
         Goes(t, [task[t] EXCEPT !.at = place, !.token = token]), refreshing' = t,
         excused' = excused \cup IF Others(t, {"read", "store"}) THEN {"refresh"} ELSE {},
         UNCHANGED <<kind, environment, disk, memory, catalog, shown, server, stale, logins, jobs, outcome>>
  PROVE  IInv'
<1> DEFINE s == task[t]
           w == [s EXCEPT !.at = place, !.token = token]
<1>1. s \in Works /\ Fits(s) /\ s.at \in {"lock", "recover"} /\ place \in {"refresh", "put"}
  BY Waiting
<1>2. kind = "codex" /\ ~environment
  BY <1>1 DEF Fits, IInv, WorkInv, LockHeld
<1>3. token \in Tokens /\ token.login \in 1..logins
  <2>1. token \in Tokens /\ token.login \in 0..logins /\ logins \in Nat
    BY <1>2 DEF IInv, WorkInv, TypeOK, LoginsKnown, Used
  <2>2. token.login # 0
    BY <2>1, BoundsAssumption DEF Tokens, EnvironmentKey
  <2> QED
    BY <2>1, <2>2
<1>4. w \in Works
  BY <1>1, <1>3 DEF Works, Places
<1>5. /\ w.at = place /\ w.token = token /\ w.job = s.job /\ w.next = s.next /\ w.models = s.models
      /\ w.fresh = s.fresh /\ w.login = s.login
  BY <1>1 DEF Works
<1>6. Goes(t, w)
  OBVIOUS
<1> HIDE DEF w
<1>7. /\ task' \in [Tasks -> Works] /\ task'[t] = w
      /\ \A u \in Tasks : u # t => task'[u] = task[u]
  BY <1>4, <1>6, GoesTo DEF IInv, WorkInv
<1>8. excused \subseteq excused' /\ excused' \subseteq Excuses
  <2>1. excused \subseteq Excuses
    BY DEF IInv, WorkInv, TypeOK
  <2> QED
    BY <2>1 DEF Excuses
<1>9. TypeOK'
  BY <1>7, <1>8 DEF IInv, WorkInv, TypeOK
<1>10. LoginsKnown'
  BY DEF IInv, WorkInv, LoginsKnown, Used
<1>11. \A u \in Tasks : task[u].at \notin Refreshers
  BY BoundsAssumption DEF IInv, WorkInv, LockHeld
<1>12. LockHeld'
  <2>1. w.at \in Refreshers
    BY <1>1, <1>5 DEF Refreshers
  <2> QED
    BY <1>7, <1>11, <2>1 DEF IInv, WorkInv, LockHeld
<1>13. WorksFit'
  <2> SUFFICES ASSUME NEW u \in Tasks PROVE Fits(task[u])'
    BY DEF WorksFit
  <2>1. CASE u = t
    <3>1. token.login \in Used
      BY <1>3 DEF Used
    <3> QED
      BY <1>1, <1>2, <1>3, <1>5, <1>7, <2>1, <3>1 DEF Fits, Changing, Using, Refreshers, Idle, Used
  <2>2. CASE u # t
    BY <1>7, <2>2 DEF IInv, WorkInv, WorksFit, Fits, Used
  <2> QED
    BY <2>1, <2>2
<1>14. Clean' => Clean /\ memory = disk /\ memory.login = outcome
  <2> SUFFICES ASSUME Clean' PROVE Clean /\ memory = disk /\ memory.login = outcome
    OBVIOUS
  <2>1. Clean
    BY <1>8, StillClean
  <2>2. \A u \in Tasks : u # t => task[u].at \notin {"read", "store"}
    BY DEF Clean, Others
  <2>3. \A u \in Tasks : task[u].at \notin {"read", "store", "put"}
    BY <1>1, <1>11, <2>2 DEF Refreshers
  <2> QED
    BY <1>2, <2>1, <2>3 DEF IInv, WorkInv, Agrees, Loaded
<1>15. Agrees'
  BY <1>2, <1>5, <1>7, <1>14 DEF Agrees, Loaded
<1>16. TokensCurrent'
  <2> SUFFICES ASSUME excused' = {} PROVE TokensCurrent!2'
    BY DEF TokensCurrent
  <2>1. excused = {}
    BY <1>8
  <2>2. \A u \in Tasks : task[u].at \notin {"write", "put"}
    BY <1>11 DEF Refreshers
  <2>3. Current(disk) /\ Current(memory)
    BY <2>1, <2>2 DEF IInv, WorkInv, TokensCurrent
  <2>4. Current(token)
    BY <2>3
  <2> QED
    BY <1>5, <1>7, <2>3, <2>4 DEF Current
<1>17. FreshIsTrue'
  BY <1>5, <1>7, <1>8, StillClean DEF IInv, WorkInv, FreshIsTrue
<1>18. CatalogSound'
  <2> SUFFICES ASSUME Undisturbed', ~Clearing' PROVE CatalogSound!2'
    BY DEF CatalogSound
  <2>1. Undisturbed /\ ~Clearing
    BY <1>1, <1>7, <1>8, StillClean DEF Clearing
  <2> QED
    BY <1>1, <1>5, <1>7, <2>1 DEF IInv, WorkInv, CatalogSound, Catalogued, ModelsOf
<1>19. ShownSound'
  <2>1. w.at # "idle" /\ (s.job \in DOMAIN Operations => w.job \in DOMAIN Operations)
    BY <1>1, <1>5
  <2> QED
    BY <1>7, <1>8, <2>1, ShownStays DEF IInv, WorkInv, Stays
<1> QED
  BY <1>9, <1>10, <1>12, <1>13, <1>15, <1>16, <1>17, <1>18, <1>19 DEF IInv, WorkInv

LEMMA RefreshStep ==
  ASSUME IInv, NEW t \in Tasks, Refresh(t)
  PROVE  IInv'
<1>1. /\ task[t].at = "lock" /\ refreshing = Nobody
      /\ UNCHANGED <<kind, environment, disk, memory, catalog, shown, server, stale, logins, jobs, outcome>>
  BY DEF Refresh, At, service
<1>2. kind = "codex"
  BY <1>1, Waiting DEF Fits
<1>3. CASE Goes(t, [task[t] EXCEPT !.at = "take"]) /\ UNCHANGED <<refreshing, excused>>
  BY <1>1, <1>2, <1>3, WaitsStep
<1>4. CASE Goes(t, Failed(t)) /\ UNCHANGED <<refreshing, excused>>
  BY <1>1, <1>4, FailsStep
<1>5. CASE memory \in stale /\ BeginRefresh(t)
  <2>1. PICK place, token : place = "refresh" /\ token = memory
    OBVIOUS
  <2>2. token # NoToken
    BY <1>5, <2>1 DEF IInv, WorkInv, TypeOK
  <2>3. /\ Goes(t, [task[t] EXCEPT !.at = place, !.token = token]) /\ refreshing' = t
        /\ excused' = excused \cup IF Others(t, {"read", "store"}) THEN {"refresh"} ELSE {}
    BY <1>5, <2>1 DEF BeginRefresh
  <2> QED
    BY <1>1, <2>1, <2>2, <2>3, LocksStep
<1> QED
  BY <1>3, <1>4, <1>5 DEF Refresh

LEMMA RecoverStep ==
  ASSUME IInv, NEW t \in Tasks, Recover(t)
  PROVE  IInv'
<1>1. /\ task[t].at = "recover" /\ refreshing = Nobody
      /\ UNCHANGED <<kind, environment, disk, memory, catalog, shown, server, stale, logins, jobs, outcome>>
  BY DEF Recover, At, service
<1>2. CASE Goes(t, Failed(t)) /\ UNCHANGED <<refreshing, excused>>
  BY <1>1, <1>2, FailsStep
<1>3. CASE memory # NoToken /\ BeginRefresh(t)
  <2>1. PICK place, token : place = "refresh" /\ token = memory
    OBVIOUS
  <2>2. /\ Goes(t, [task[t] EXCEPT !.at = place, !.token = token]) /\ refreshing' = t
        /\ excused' = excused \cup IF Others(t, {"read", "store"}) THEN {"refresh"} ELSE {}
    BY <1>3, <2>1 DEF BeginRefresh
  <2> QED
    BY <1>1, <1>3, <2>1, <2>2, LocksStep
<1>4. ASSUME disk \notin {NoToken, task[t].token}, refreshing' = t,
             excused' = excused \cup IF Others(t, {"read", "store"}) THEN {"refresh"} ELSE {},
             Goes(t, [task[t] EXCEPT !.token = disk, !.at = "put"])
      PROVE  IInv'
  <2>1. PICK place, token : place = "put" /\ token = disk
    OBVIOUS
  <2>2. Goes(t, [task[t] EXCEPT !.at = place, !.token = token])
    <3>1. [task[t] EXCEPT !.at = place, !.token = token] = [task[t] EXCEPT !.token = disk, !.at = "put"]
      BY <2>1, Waiting DEF Works
    <3> QED
      BY <1>4, <3>1
  <2> QED
    BY <1>1, <1>4, <2>1, <2>2, LocksStep
<1> QED
  BY <1>2, <1>3, <1>4 DEF Recover

\* The answer did not come, or was an error.
LEMMA RefreshFails ==
  ASSUME IInv, NEW t \in Tasks, task[t].at = "refresh", Goes(t, Failed(t)), refreshing' = Nobody,
         \/ UNCHANGED <<server, excused>>
         \/ server' \in [1..MaxLogins -> Nat] /\ excused' = excused \cup {"lost"},
         UNCHANGED <<kind, environment, disk, memory, catalog, shown, stale, logins, jobs, outcome>>
  PROVE  IInv'
<1>1. Good(Failed(t)) /\ Stays(t, Failed(t))
  BY FailedIsGood DEF IInv
<1> DEFINE w == Failed(t)
<1>2. w \in Works /\ Fits(w) /\ w.at \notin Refreshers \cup {"clear"} /\ Stays(t, w)
  BY <1>1 DEF Good
<1> HIDE DEF w
<1>3. /\ task' \in [Tasks -> Works] /\ task'[t] = w
      /\ \A u \in Tasks : u # t => task'[u] = task[u]
  BY <1>2, GoesTo DEF IInv, WorkInv, w
<1>4. \A u \in Tasks : u # t => task[u].at \notin Refreshers
  BY Refreshing DEF Refreshers
<1>5. excused \subseteq excused' /\ excused' \subseteq excused \cup {"lost"}
  OBVIOUS
<1>6. (Clean' => Clean) /\ (Undisturbed' => Undisturbed)
  BY <1>5, StillClean
<1>7. TypeOK'
  <2>1. server' \in [1..MaxLogins -> Nat] /\ excused' \subseteq Excuses
    BY <1>5 DEF IInv, WorkInv, TypeOK, Excuses
  <2> QED
    BY <1>3, <2>1 DEF IInv, WorkInv, TypeOK
<1>8. LoginsKnown'
  BY DEF IInv, WorkInv, LoginsKnown, Used
<1>9. LockHeld'
  BY <1>2, <1>3, <1>4, BoundsAssumption DEF IInv, WorkInv, LockHeld
<1>10. WorksFit'
  BY <1>2, <1>3 DEF IInv, WorkInv, WorksFit, Fits, Used
<1>11. Agrees'
  <2> SUFFICES ASSUME Clean' PROVE Agrees!2'
    BY DEF Agrees
  <2>1. (\A u \in Tasks : task'[u].at \notin {"read", "store", "put"}) =>
          \A u \in Tasks : task[u].at \notin {"read", "store", "put"}
    BY <1>3
  <2> QED
    BY <1>6, <2>1, BoundsAssumption DEF IInv, WorkInv, Agrees, Loaded
<1>12. TokensCurrent'
  <2> SUFFICES ASSUME excused' = {} PROVE TokensCurrent!2'
    BY DEF TokensCurrent
  <2>1. excused = {} /\ server' = server
    OBVIOUS
  <2>2. \A u \in Tasks : task[u].at \notin {"write", "put"}
    BY <1>4 DEF Refreshers
  <2> QED
    BY <2>1, <2>2, BoundsAssumption DEF IInv, WorkInv, TokensCurrent, Current
<1>13. FreshIsTrue'
  BY <1>1, <1>3, <1>6 DEF IInv, WorkInv, FreshIsTrue, Good, w
<1>14. CatalogSound'
  <2> SUFFICES ASSUME Undisturbed', ~Clearing' PROVE CatalogSound!2'
    BY DEF CatalogSound
  <2>1. Undisturbed /\ ~Clearing
    BY <1>3, <1>6 DEF Clearing
  <2>2. Catalogued(w) /\ catalog \in {0, memory.login} /\ \A u \in Tasks : Catalogued(task[u])
    BY <1>1, <2>1 DEF Good, w, IInv, WorkInv, CatalogSound
  <2> QED
    BY <1>3, <2>2 DEF Catalogued, ModelsOf
<1>15. ShownSound'
  BY <1>2, <1>3, <1>5, ShownStays DEF IInv, WorkInv
<1> QED
  BY <1>7, <1>8, <1>9, <1>10, <1>11, <1>12, <1>13, <1>14, <1>15 DEF IInv, WorkInv

\* The answer came: the new token is the only one the service accepts.
LEMMA RefreshSucceeds ==
  ASSUME IInv, NEW t \in Tasks, task[t].at = "refresh", NEW token,
         token = Token(task[t].token.login, task[t].token.number + 1),
         Goes(t, [task[t] EXCEPT !.token = token, !.at = "write"]),
         server' = [server EXCEPT ![task[t].token.login] = token.number],
         UNCHANGED <<kind, environment, disk, memory, refreshing, catalog, shown, stale, logins, jobs, outcome, excused>>
  PROVE  IInv'
<1> DEFINE s == task[t]
           w == [s EXCEPT !.token = token, !.at = "write"]
<1>1. s \in Works /\ Fits(s) /\ s.at = "refresh"
  BY Waiting
<1>2. /\ refreshing = t /\ kind = "codex" /\ ~environment /\ s.token.login \in 1..logins
      /\ s.token.login \in 1..MaxLogins /\ s.models = 0
      /\ \A u \in Tasks : u # t => task[u].at \notin Refreshers
  BY <1>1, Refreshing DEF Refreshers
<1>3. token \in Tokens /\ token.login = s.token.login /\ token.number \in Nat
  <2>1. s.token.number \in Nat
    BY <1>1, <1>2 DEF Works, Tokens, NoToken, Token
  <2>2. s.token.login \in 1..EnvironmentKey
    BY <1>2, BoundsAssumption DEF EnvironmentKey
  <2> QED
    BY <2>1, <2>2 DEF Token, Tokens
<1>4. w \in Works
  BY <1>1, <1>3 DEF Works, Places
<1>5. /\ w.at = "write" /\ w.token = token /\ w.job = s.job /\ w.next = s.next /\ w.models = s.models
      /\ w.fresh = s.fresh /\ w.login = s.login
  BY <1>1 DEF Works
<1>6. Goes(t, w)
  OBVIOUS
<1> HIDE DEF w
<1>7. /\ task' \in [Tasks -> Works] /\ task'[t] = w
      /\ \A u \in Tasks : u # t => task'[u] = task[u]
  BY <1>4, <1>6, GoesTo DEF IInv, WorkInv
<1>8. server' \in [1..MaxLogins -> Nat] /\ server'[token.login] = token.number
  BY <1>2, <1>3 DEF IInv, WorkInv, TypeOK
<1>9. TypeOK'
  BY <1>7, <1>8 DEF IInv, WorkInv, TypeOK
<1>10. LoginsKnown'
  BY DEF IInv, WorkInv, LoginsKnown, Used
<1>11. LockHeld'
  BY <1>1, <1>5, <1>7 DEF IInv, WorkInv, LockHeld, Refreshers
<1>12. WorksFit'
  <2> SUFFICES ASSUME NEW u \in Tasks PROVE Fits(task[u])'
    BY DEF WorksFit
  <2>1. CASE u = t
    BY <1>1, <1>2, <1>3, <1>5, <1>7, <2>1 DEF Fits, Changing, Using, Refreshers, Idle, Used
  <2>2. CASE u # t
    BY <1>7, <2>2 DEF IInv, WorkInv, WorksFit, Fits, Used
  <2> QED
    BY <2>1, <2>2
<1>13. Agrees'
  <2> SUFFICES ASSUME Clean PROVE Agrees!2'
    BY DEF Agrees, Clean
  <2>1. (\A u \in Tasks : task'[u].at \notin {"read", "store", "put"}) =>
          \A u \in Tasks : task[u].at \notin {"read", "store", "put"}
    BY <1>1, <1>7
  <2>2. s.token.login = memory.login /\ disk.login = memory.login /\ memory = disk /\ memory.login = outcome
    BY <1>1, <1>2 DEF IInv, WorkInv, Agrees
  <2> QED
    BY <1>2, <1>3, <1>5, <1>7, <2>1, <2>2 DEF IInv, WorkInv, Agrees, Loaded
<1>14. TokensCurrent'
  <2>1. Current(token)'
    BY <1>8 DEF Current
  <2>2. task'[t].token = token /\ task'[t].at = "write"
    BY <1>5, <1>7
  <2> QED
    BY <1>2, <2>1, <2>2 DEF TokensCurrent, Current
<1>15. FreshIsTrue'
  BY <1>5, <1>7 DEF IInv, WorkInv, FreshIsTrue, Clean
<1>16. CatalogSound'
  <2> SUFFICES ASSUME Undisturbed, ~Clearing' PROVE CatalogSound!2'
    BY DEF CatalogSound, Undisturbed
  <2>1. ~Clearing
    BY <1>1, <1>7 DEF Clearing
  <2> QED
    BY <1>5, <1>7, <2>1 DEF IInv, WorkInv, CatalogSound, Catalogued, ModelsOf
<1>17. ShownSound'
  BY <1>5, <1>7, ShownStays DEF IInv, WorkInv, Stays
<1> QED
  BY <1>9, <1>10, <1>11, <1>12, <1>13, <1>14, <1>15, <1>16, <1>17 DEF IInv, WorkInv

LEMMA RefreshAnsweredStep ==
  ASSUME IInv, NEW t \in Tasks, RefreshAnswered(t)
  PROVE  IInv'
<1> DEFINE l == task[t].token.login
           n == task[t].token.number + 1
<1>1. /\ task[t].at = "refresh"
      /\ UNCHANGED <<kind, environment, disk, memory, catalog, shown, stale, logins, jobs, outcome>>
  BY DEF RefreshAnswered, At
<1>2. server' = [server EXCEPT ![l] = n] => server' \in [1..MaxLogins -> Nat]
  <2>1. task[t].token \in Tokens /\ l \in 1..MaxLogins
    BY <1>1, Waiting, Refreshing DEF Works, Refreshers
  <2>2. n \in Nat
    BY <2>1 DEF Tokens, NoToken, Token
  <2> QED
    BY <2>2 DEF IInv, WorkInv, TypeOK
<1>3. CASE server' = [server EXCEPT ![l] = n] /\ Goes(t, [task[t] EXCEPT !.token = Token(l, n), !.at = "write"])
           /\ UNCHANGED <<refreshing, excused>>
  <2>1. PICK token : token = Token(l, n)
    OBVIOUS
  <2>2. token.number = n
    BY <2>1 DEF Token
  <2> QED
    BY <1>1, <1>3, <2>1, <2>2, RefreshSucceeds
<1>4. CASE refreshing' = Nobody /\ Goes(t, Failed(t)) /\ server' = [server EXCEPT ![l] = n]
           /\ excused' = excused \cup {"lost"}
  BY <1>1, <1>2, <1>4, RefreshFails
<1>5. CASE refreshing' = Nobody /\ Goes(t, Failed(t)) /\ UNCHANGED <<server, excused>>
  BY <1>1, <1>5, RefreshFails
<1> QED
  BY <1>3, <1>4, <1>5 DEF RefreshAnswered

\* The file has the new token before the memory.
LEMMA WrittenStep ==
  ASSUME IInv, NEW t \in Tasks, WriteTokens(t), Goes(t, [task[t] EXCEPT !.at = "put"]), UNCHANGED <<refreshing, excused>>
  PROVE  IInv'
<1> DEFINE s == task[t]
           w == [s EXCEPT !.at = "put"]
<1>1. s \in Works /\ Fits(s) /\ s.at = "write"
  BY Waiting DEF WriteTokens, At
<1>2. /\ refreshing = t /\ kind = "codex" /\ ~environment /\ s.token.login \in 1..logins
      /\ s.token.login \in 1..MaxLogins /\ s.models = 0
      /\ \A u \in Tasks : u # t => task[u].at \notin Refreshers
  BY <1>1, Refreshing DEF Refreshers
<1>3. UNCHANGED <<kind, environment, memory, refreshing, catalog, shown, server, stale, logins, jobs, outcome, excused>>
  BY DEF WriteTokens, service
<1>4. Goes(t, w) /\ disk' = s.token
  BY DEF WriteTokens
<1>5. w \in Works
  BY <1>1 DEF Works, Places
<1>6. /\ w.at = "put" /\ w.token = s.token /\ w.job = s.job /\ w.next = s.next /\ w.models = s.models
      /\ w.fresh = s.fresh /\ w.login = s.login
  BY <1>1 DEF Works
<1> HIDE DEF w
<1>7. /\ task' \in [Tasks -> Works] /\ task'[t] = w
      /\ \A u \in Tasks : u # t => task'[u] = task[u]
  BY <1>4, <1>5, GoesTo DEF IInv, WorkInv
<1>8. disk' \in Tokens /\ disk'.login \in 0..logins
  BY <1>1, <1>2, <1>4 DEF Works
<1>9. TypeOK'
  BY <1>3, <1>7, <1>8 DEF IInv, WorkInv, TypeOK
<1>10. LoginsKnown'
  BY <1>3, <1>8 DEF IInv, WorkInv, LoginsKnown, Used
<1>11. LockHeld'
  BY <1>1, <1>3, <1>6, <1>7 DEF IInv, WorkInv, LockHeld, Refreshers
<1>12. WorksFit'
  <2> SUFFICES ASSUME NEW u \in Tasks PROVE Fits(task[u])'
    BY DEF WorksFit
  <2>1. CASE u = t
    BY <1>1, <1>2, <1>3, <1>6, <1>7, <2>1 DEF Fits, Changing, Using, Refreshers, Idle, Used
  <2>2. CASE u # t
    BY <1>3, <1>7, <2>2 DEF IInv, WorkInv, WorksFit, Fits, Used
  <2> QED
    BY <2>1, <2>2
<1>13. Agrees'
  <2> SUFFICES ASSUME Clean PROVE Agrees!2'
    BY <1>3 DEF Agrees, Clean
  <2>1. s.token.login = memory.login /\ memory.login = outcome
    BY <1>2 DEF IInv, WorkInv, Agrees
  <2> QED
    BY <1>2, <1>3, <1>4, <1>6, <1>7, <2>1
<1>14. TokensCurrent'
  <2> SUFFICES ASSUME excused = {} PROVE TokensCurrent!2'
    BY <1>3 DEF TokensCurrent
  <2>1. Current(s.token)
    BY <1>2 DEF IInv, WorkInv, TokensCurrent
  <2>2. Current(disk') /\ Current(task'[t].token)
    BY <1>4, <1>6, <1>7, <2>1
  <2> QED
    BY <1>2, <1>3, <1>6, <1>7, <2>2 DEF Current
<1>15. FreshIsTrue'
  BY <1>3, <1>6, <1>7 DEF IInv, WorkInv, FreshIsTrue, Clean
<1>16. CatalogSound'
  <2> SUFFICES ASSUME Undisturbed, ~Clearing' PROVE CatalogSound!2'
    BY <1>3 DEF CatalogSound, Undisturbed
  <2>1. ~Clearing
    BY <1>1, <1>7 DEF Clearing
  <2> QED
    BY <1>3, <1>6, <1>7, <2>1 DEF IInv, WorkInv, CatalogSound, Catalogued, ModelsOf
<1>17. ShownSound'
  BY <1>3, <1>6, <1>7, ShownStays DEF IInv, WorkInv, Stays
<1> QED
  BY <1>9, <1>10, <1>11, <1>12, <1>13, <1>14, <1>15, <1>16, <1>17 DEF IInv, WorkInv

LEMMA WriteTokensStep ==
  ASSUME IInv, NEW t \in Tasks, WriteTokens(t)
  PROVE  IInv'
<1>1. CASE Goes(t, [task[t] EXCEPT !.at = "put"]) /\ UNCHANGED <<refreshing, excused>>
  BY <1>1, WrittenStep
<1>2. CASE IsUnread(t) /\ refreshing' = Nobody
  <2>1. /\ task[t].at = "write" /\ disk' = task[t].token
        /\ UNCHANGED <<kind, environment, memory, catalog, shown, server, stale, logins, jobs, outcome>>
    BY DEF WriteTokens, At, service
  <2>2. task[t] \in Works /\ Fits(task[t])
    BY Waiting
  <2>3. task[t].token.login \in 1..logins
    BY <2>1, <2>2 DEF Fits, Refreshers
  <2>4. /\ disk' \in Tokens /\ disk'.login \in 0..logins' /\ server' \in [1..MaxLogins -> Nat]
        /\ logins' \in logins..MaxLogins
    <3>1. logins \in Nat /\ logins \in 0..MaxLogins /\ server \in [1..MaxLogins -> Nat] /\ MaxLogins \in Nat
      BY BoundsAssumption DEF IInv, WorkInv, TypeOK
    <3>2. task[t].token \in Tokens
      BY <2>2 DEF Works
    <3>3. logins' = logins /\ logins \in logins..MaxLogins /\ task[t].token.login \in 0..logins
      BY <2>1, <2>3, <3>1
    <3> QED
      BY <2>1, <3>1, <3>2, <3>3
  <2> QED
    BY <1>2, <2>1, <2>4, UnreadStep
<1> QED
  BY <1>1, <1>2 DEF WriteTokens

\* The memory has the new token, and the lock is released.
LEMMA PutTokensStep ==
  ASSUME IInv, NEW t \in Tasks, PutTokens(t)
  PROVE  IInv'
<1> DEFINE s == task[t]
           w == [s EXCEPT !.at = "take"]
<1>1. s \in Works /\ Fits(s) /\ s.at = "put"
  BY Waiting DEF PutTokens, At
<1>2. /\ refreshing = t /\ kind = "codex" /\ ~environment /\ s.token.login \in 1..logins
      /\ s.token.login \in 1..MaxLogins /\ s.models = 0
      /\ \A u \in Tasks : u # t => task[u].at \notin Refreshers
  BY <1>1, Refreshing DEF Refreshers
<1>3. UNCHANGED <<kind, environment, disk, catalog, shown, server, stale, logins, jobs, outcome, excused>>
  BY DEF PutTokens, service, history
<1>4. Goes(t, w) /\ memory' = s.token /\ refreshing' = Nobody
  BY DEF PutTokens
<1>5. w \in Works
  BY <1>1 DEF Works, Places
<1>6. /\ w.at = "take" /\ w.token = s.token /\ w.job = s.job /\ w.next = s.next /\ w.models = s.models
      /\ w.fresh = s.fresh /\ w.login = s.login
  BY <1>1 DEF Works
<1> HIDE DEF w
<1>7. /\ task' \in [Tasks -> Works] /\ task'[t] = w
      /\ \A u \in Tasks : u # t => task'[u] = task[u]
  BY <1>4, <1>5, GoesTo DEF IInv, WorkInv
<1>8. memory' \in Tokens /\ memory'.login \in Used
  BY <1>1, <1>2, <1>4 DEF Works, Used
<1>9. TypeOK'
  BY <1>3, <1>4, <1>7, <1>8 DEF IInv, WorkInv, TypeOK
<1>10. LoginsKnown'
  BY <1>3, <1>8 DEF IInv, WorkInv, LoginsKnown, Used
<1>11. LockHeld'
  BY <1>2, <1>3, <1>4, <1>6, <1>7, BoundsAssumption DEF IInv, WorkInv, LockHeld, Refreshers
<1>12. WorksFit'
  <2> SUFFICES ASSUME NEW u \in Tasks PROVE Fits(task[u])'
    BY DEF WorksFit
  <2>1. CASE u = t
    BY <1>1, <1>2, <1>3, <1>6, <1>7, <2>1 DEF Fits, Changing, Using, Refreshers, Idle, Used
  <2>2. CASE u # t
    BY <1>3, <1>7, <2>2 DEF IInv, WorkInv, WorksFit, Fits, Used
  <2> QED
    BY <2>1, <2>2
<1>13. Clean => s.token = disk /\ s.token.login = memory.login /\ memory.login = outcome
  BY <1>1, <1>2 DEF IInv, WorkInv, Agrees
<1>14. Agrees'
  <2> SUFFICES ASSUME Clean PROVE Agrees!2'
    BY <1>3 DEF Agrees, Clean
  <2> QED
    BY <1>2, <1>3, <1>4, <1>13, BoundsAssumption DEF Loaded
<1>15. TokensCurrent'
  <2> SUFFICES ASSUME excused = {} PROVE TokensCurrent!2'
    BY <1>3 DEF TokensCurrent
  <2>1. Current(s.token)
    BY <1>2 DEF IInv, WorkInv, TokensCurrent
  <2>2. \A u \in Tasks : task[u].at # "write"
    BY <1>1, <1>2 DEF Refreshers
  <2>3. Current(disk)
    BY <2>2 DEF IInv, WorkInv, TokensCurrent
  <2> QED
    BY <1>3, <1>4, <2>1, <2>3, BoundsAssumption DEF Current
<1>16. FreshIsTrue'
  BY <1>3, <1>4, <1>6, <1>7, <1>13 DEF IInv, WorkInv, FreshIsTrue, Clean
<1>17. Undisturbed => memory'.login = memory.login
  BY <1>4, <1>13 DEF Undisturbed, Clean
<1>18. CatalogSound'
  <2> SUFFICES ASSUME Undisturbed, ~Clearing' PROVE CatalogSound!2'
    BY <1>3 DEF CatalogSound, Undisturbed
  <2>1. ~Clearing
    BY <1>1, <1>7 DEF Clearing
  <2> QED
    BY <1>3, <1>6, <1>7, <1>17, <2>1 DEF IInv, WorkInv, CatalogSound, Catalogued, ModelsOf
<1>19. ShownSound'
  <2>1. CASE Undisturbed
    BY <1>3, <1>6, <1>7, <1>17, <2>1, ShownStays DEF IInv, WorkInv, Stays
  <2>2. CASE ~Undisturbed
    BY <1>3, <2>2 DEF ShownSound, Undisturbed
  <2> QED
    BY <2>1, <2>2
<1> QED
  BY <1>9, <1>10, <1>11, <1>12, <1>14, <1>15, <1>16, <1>18, <1>19 DEF IInv, WorkInv

-----------------------------------------------------------------------------
(* The invariant holds.                                                    *)

LEMMA InitHolds ==
  ASSUME Init
  PROVE  IInv
<1>1. /\ kind \in Kinds /\ environment \in BOOLEAN /\ (kind = "codex" => ~environment)
      /\ disk \in {NoToken, Token(1, 1)} /\ logins = disk.login
      /\ memory = Loaded(disk) /\ refreshing = Nobody /\ catalog = 0 /\ stale = {}
      /\ jobs = 0 /\ outcome = memory.login /\ excused = {}
  BY DEF Init, Loaded
<1>2. MaxLogins \in Nat \ {0} /\ MaxJobs \in Nat /\ EnvironmentKey = MaxLogins + 1 /\ Public \in Nat
  BY BoundsAssumption DEF EnvironmentKey, Public
<1>3. /\ NoToken = [login |-> 0, number |-> 0] /\ NoToken.login = 0
      /\ Token(1, 1).login = 1 /\ Token(1, 1).number = 1
      /\ Token(EnvironmentKey, 1).login = EnvironmentKey
  BY DEF NoToken, Token
<1>4. disk \in Tokens /\ disk.login \in {0, 1} /\ logins \in 0..MaxLogins
  BY <1>1, <1>2, <1>3 DEF Tokens, Token
<1>5. memory \in Tokens /\ memory.login \in Used /\ memory.login \in 0..EnvironmentKey
  BY <1>1, <1>2, <1>3, <1>4 DEF Loaded, Used, Tokens, Token
<1>6. shown = [lifecycle |-> "refreshing", login |-> 0, models |-> 0, fresh |-> FALSE]
  BY DEF Init
<1>7. shown \in Shows /\ shown.fresh = FALSE
  BY <1>2, <1>6 DEF Shows, Busy
<1>8. server \in [1..MaxLogins -> Nat] /\ \A l \in 1..MaxLogins : l <= logins => server[l] = 1
  BY DEF Init
<1>9. PICK start \in Works : start = [Job("start", "auth") EXCEPT !.next = "models"]
  <2>1. "start" \in {"none", "start", "turn", "publish"} \cup DOMAIN Operations
    OBVIOUS
  <2>2. [Job("start", "auth") EXCEPT !.next = "models"] = Publication("start")
    BY DEF Publication
  <2> QED
    BY <2>1, <2>2, NewPublication
<1>10. /\ start.job = "start" /\ start.at = "auth" /\ start.next = "models" /\ start.token.login = 0
       /\ start.models = 0 /\ start.fresh = FALSE
  <2>1. "start" \in {"none", "start", "turn", "publish"} \cup DOMAIN Operations
    OBVIOUS
  <2>2. start = Publication("start")
    BY <1>9 DEF Publication
  <2> QED
    BY <2>1, <2>2, NewPublication
<1>11. /\ Idle.job = "none" /\ Idle.at = "idle" /\ Idle.next = "idle" /\ Idle.token = NoToken /\ Idle.models = 0
       /\ Idle.fresh = FALSE
  BY DEF Idle
<1>12. Idle \in Works
  BY <1>2 DEF Idle, Works, Places, Tokens, NoToken, Token
<1>13. task \in [Tasks -> Works] /\ \A t \in Tasks : task[t] \in {start, Idle}
  BY <1>9, <1>12 DEF Init
<1>14. TypeOK
  <2>1. outcome \in 0..EnvironmentKey /\ catalog \in 0..EnvironmentKey /\ jobs \in 0..MaxJobs
    BY <1>1, <1>2, <1>5
  <2> QED
    BY <1>1, <1>4, <1>5, <1>7, <1>8, <1>13, <2>1 DEF TypeOK, Shows
<1>15. LoginsKnown
  BY <1>1, <1>4, <1>5 DEF LoginsKnown
<1>16. LockHeld
  BY <1>1, <1>10, <1>11, <1>13, BoundsAssumption DEF LockHeld, Refreshers
<1>17. Fits(start) /\ Fits(Idle)
  <2>1. 0 \in Used
    BY <1>4 DEF Used
  <2> QED
    BY <1>3, <1>10, <1>11, <2>1 DEF Fits, Refreshers, Changing, Using
<1>18. WorksFit
  BY <1>13, <1>17 DEF WorksFit
<1>19. Agrees
  BY <1>1, BoundsAssumption DEF Agrees
<1>20. TokensCurrent
  <2>1. Current(disk)
    BY <1>1, <1>3, <1>4, <1>8 DEF Current, Token, NoToken
  <2>2. Current(memory)
    BY <1>1, <1>2, <1>3, <2>1 DEF Loaded, Current
  <2> QED
    BY <1>1, <2>1, <2>2, BoundsAssumption DEF TokensCurrent
<1>21. FreshIsTrue
  BY <1>10, <1>11, <1>13 DEF FreshIsTrue
<1>22. CatalogSound
  BY <1>1, <1>10, <1>11, <1>13 DEF CatalogSound, Catalogued
<1>23. ShownSound
  BY <1>7 DEF ShownSound
<1> QED
  BY <1>14, <1>15, <1>16, <1>18, <1>19, <1>20, <1>21, <1>22, <1>23 DEF IInv, WorkInv

LEMMA StutterHolds ==
  ASSUME IInv, UNCHANGED vars
  PROVE  IInv'
<1>1. UNCHANGED <<kind, environment, disk, memory, refreshing, catalog, shown, task, server, stale, logins, jobs, outcome, excused>>
  BY DEF vars, login, service, history
<1>2. TypeOK'
  BY <1>1 DEF IInv, WorkInv, TypeOK
<1>3. LoginsKnown' /\ LockHeld' /\ WorksFit'
  BY <1>1 DEF IInv, WorkInv, LoginsKnown, LockHeld, WorksFit, Fits, Used
<1>4. Agrees' /\ FreshIsTrue'
  BY <1>1 DEF IInv, WorkInv, Agrees, FreshIsTrue, Clean, Loaded
<1>5. TokensCurrent'
  BY <1>1 DEF IInv, WorkInv, TokensCurrent, Current
<1>6. CatalogSound' /\ ShownSound'
  BY <1>1 DEF IInv, WorkInv, CatalogSound, ShownSound, Undisturbed, Clearing, Catalogued, ModelsOf, Operating, Working
<1> QED
  BY <1>2, <1>3, <1>4, <1>5, <1>6 DEF IInv, WorkInv

\* Every step of every task keeps the invariant.
LEMMA StepHolds ==
  ASSUME IInv, [Next]_vars
  PROVE  IInv'
<1>1. CASE UNCHANGED vars
  BY <1>1, StutterHolds
<1>2. CASE Expire
  BY <1>2, ExpireStep
<1>3. ASSUME NEW t \in Tasks, StartOperation(t) \/ StartTurn(t)
      PROVE  IInv'
  BY <1>3, StartOperationStep, StartTurnStep
<1>4. ASSUME NEW t \in Tasks, Exchange(t) \/ SaveKey(t) \/ Revoke(t) \/ RemoveFile(t)
      PROVE  IInv'
  BY <1>4, ExchangeStep, SaveKeyStep, RevokeStep, RemoveFileStep
<1>5. ASSUME NEW t \in Tasks, ReadFile(t) \/ StoreLogin(t) \/ ClearCatalog(t)
      PROVE  IInv'
  BY <1>5, ReadFileStep, StoreLoginStep, ClearCatalogStep
<1>6. ASSUME NEW t \in Tasks, Auth(t) \/ Refresh(t) \/ Recover(t) \/ RefreshAnswered(t)
      PROVE  IInv'
  BY <1>6, AuthStep, RefreshStep, RecoverStep, RefreshAnsweredStep
<1>7. ASSUME NEW t \in Tasks, WriteTokens(t) \/ PutTokens(t) \/ TakeToken(t)
      PROVE  IInv'
  BY <1>7, WriteTokensStep, PutTokensStep, TakeTokenStep
<1>8. ASSUME NEW t \in Tasks, SendAnswered(t) \/ SeeModels(t)
      PROVE  IInv'
  BY <1>8, SendAnsweredStep, SeeModelsStep
<1>9. ASSUME NEW t \in Tasks, CodexModels(t) \/ OllamaModels(t) \/ OpencodeModels(t) \/ Publish(t)
      PROVE  IInv'
  BY <1>9, CodexModelsStep, OllamaModelsStep, OpencodeModelsStep, PublishStep
<1> QED
  BY <1>1, <1>2, <1>3, <1>4, <1>5, <1>6, <1>7, <1>8, <1>9 DEF Next, TaskStep

\* The inductive invariant of a provider's login.
THEOREM LoginInvariant == Spec => []IInv
<1>1. Init => IInv
  BY InitHolds
<1>2. IInv /\ [Next]_vars => IInv'
  BY StepHolds
<1> QED
  BY <1>1, <1>2, PTL DEF Spec

\* An operation on the login has its effect, once: a refresh token is used once,
\* and the last operation stands in memory and in the file.  (AuthManager::refresh,
\* recover_unauthorized, reload)
THEOREM LoginKept == Spec => []LoginIsKept
<1>1. IInv => LoginIsKept
  <2> SUFFICES ASSUME IInv PROVE LoginIsKept
    OBVIOUS
  <2>1. RefreshedOnce
    <3> SUFFICES ASSUME excused = {}, NEW t \in Tasks, task[t].at = "refresh"
                 PROVE  server[task[t].token.login] \in {0, task[t].token.number}
      BY DEF RefreshedOnce, At
    <3>1. refreshing = t /\ task[t].token.login \in 1..MaxLogins
      BY Refreshing DEF Refreshers
    <3> QED
      BY <3>1 DEF IInv, WorkInv, TokensCurrent, Current
  <2>2. LoginStands
    <3> SUFFICES ASSUME Quiet, excused \subseteq {"lost", "fetch"}
                 PROVE  memory.login = outcome /\ memory = Loaded(disk)
      BY DEF LoginStands
    <3>1. Clean
      BY DEF Clean
    <3>2. \A t \in Tasks : task[t].at = "idle"
      BY DEF Quiet, Idle
    <3> QED
      BY <3>1, <3>2 DEF IInv, WorkInv, Agrees
  <2> QED
    BY <2>1, <2>2 DEF IInv, WorkInv, LoginIsKept
<1> QED
  BY <1>1, LoginInvariant, PTL

\* When nothing goes on, clients are shown the login in use and its models,
\* whatever was published in between.  (provider_state, reload_auth_inner)
THEOREM ShownTrue == Spec => []ShownIsTrue
<1>1. IInv => ShownIsTrue
  <2> SUFFICES ASSUME IInv, Quiet, shown.fresh, excused \subseteq {"lost"}, shown.lifecycle # "failed"
               PROVE  /\ shown.lifecycle \notin Busy
                      /\ shown.login = memory.login
                      /\ shown.models \in {memory.login, Public}
    BY DEF ShownIsTrue
  <2>1. \A t \in Tasks : task[t].at = "idle" /\ task[t].job = "none"
    BY DEF Quiet, Idle
  <2>2. ~Operating /\ ~Working
    BY <2>1 DEF Operating, Working, Operations
  <2> QED
    BY <2>2 DEF IInv, ShownSound, Undisturbed, ModelsOf
<1> QED
  BY <1>1, LoginInvariant, PTL

=============================================================================
