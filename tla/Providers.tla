----------------------------- MODULE Providers -----------------------------
(***************************************************************************)
(* One model provider of the Controller (model/codex.rs, codex_auth.rs,    *)
(* ollama.rs, opencode_go.rs and api_key_auth.rs; the operations and the   *)
(* refreshes of commands.rs and lib.rs of atra-controller).                *)
(*                                                                         *)
(* Its login is a file, and what is kept of the file in memory.  Clients   *)
(* log in and out and reload; turns and the tasks that publish its state   *)
(* use the login at the same time.  Codex refreshes its tokens: the one    *)
(* refresh token is spent by the answer that carries the next.  A task is  *)
(* suspended between any two of its actions.  Limits of rates, sessions    *)
(* and the browser's pages are left out.                                   *)
(***************************************************************************)
EXTENDS Integers, FiniteSets

CONSTANTS
  Tasks,          \* tasks that use the provider
  Kinds,          \* kinds of providers
  MaxLogins,      \* bounds: logins that succeed,
  MaxRefreshes,   \* refresh tokens of a login,
  MaxJobs         \* and jobs the tasks take

Nobody == "nobody"

ASSUME BoundsAssumption ==
  /\ Nobody \notin Tasks /\ Kinds \subseteq {"codex", "ollama", "opencode"}
  /\ MaxLogins \in Nat \ {0} /\ {MaxRefreshes, MaxJobs} \subseteq Nat

VARIABLES
  kind, environment,  \* which provider; whether the environment holds a key
  disk, memory,       \* the login in the file, and the one in use
  refreshing,         \* the task that holds the lock of refreshes
  catalog,            \* the login the cached models are of
  shown,              \* the state clients are shown
  task,               \* what each task does
  server,             \* the refresh token the service accepts, of each login
  stale,              \* access tokens that expire soon
  logins, jobs,       \* bounds
  outcome,            \* history: the login of the last operation that changed it
  excused             \* history: races and losses the properties except

login == <<disk, memory, refreshing, catalog>>
service == <<server, stale>>
history == <<outcome, excused>>
vars == <<kind, environment, login, shown, task, service, logins, jobs, history>>

Token(l, n) == [login |-> l, number |-> n]
NoToken == Token(0, 0)
EnvironmentKey == MaxLogins + 1
Public == MaxLogins + 2      \* models for which no login is needed

Busy == {"loggingIn", "loggingOut", "refreshing"}
Operations == [login |-> "loggingIn", logout |-> "loggingOut", reload |-> "refreshing"]

Idle == [job |-> "none", at |-> "idle", next |-> "idle", token |-> NoToken,
         again |-> FALSE, ok |-> TRUE, login |-> 0, models |-> 0, fresh |-> FALSE]
Job(job, at) == [Idle EXCEPT !.job = job, !.at = at]

Tokens == {NoToken} \cup [login : 1..EnvironmentKey, number : Nat]
Places == {"idle", "exchange", "save", "revoke", "remove", "read", "store", "clear", "auth", "lock", "recover",
  "refresh", "write", "put", "take", "send", "models", "fetch", "publish"}
Works == [job : {"none", "start", "turn", "publish"} \cup DOMAIN Operations, at : Places,
  next : {"idle", "models", "send", "fetch"}, token : Tokens, again : BOOLEAN, ok : BOOLEAN,
  login : 0..EnvironmentKey, models : 0..Public, fresh : BOOLEAN]

\* What the properties except.
Excuses == {"refresh", "late", "fetch", "lost", "unread"}

TypeOK ==
  /\ kind \in Kinds /\ environment \in BOOLEAN
  /\ {disk, memory} \subseteq Tokens /\ refreshing \in Tasks \cup {Nobody} /\ catalog \in 0..EnvironmentKey
  /\ shown \in [lifecycle : Busy \cup {"failed", "loginRequired", "loggedIn"}, login : 0..EnvironmentKey,
                models : 0..Public, fresh : BOOLEAN]
  /\ task \in [Tasks -> Works] /\ server \in [1..MaxLogins -> Nat] /\ stale \subseteq Tokens \ {NoToken}
  /\ logins \in 0..MaxLogins /\ jobs \in 0..MaxJobs
  /\ outcome \in 0..EnvironmentKey /\ excused \subseteq Excuses

\* Nothing is known of the login when the Controller starts: it is read from the
\* file, and each provider is shown to refresh until the first state of it.
Init ==
  /\ kind \in Kinds /\ environment \in {FALSE} \cup (IF kind = "codex" THEN {} ELSE {TRUE})
  /\ disk \in {NoToken, Token(1, 1)} /\ logins = disk.login
  /\ memory = IF environment THEN Token(EnvironmentKey, 1) ELSE disk
  /\ refreshing = Nobody /\ catalog = 0
  /\ shown = [lifecycle |-> "refreshing", login |-> 0, models |-> 0, fresh |-> FALSE]
  /\ LET t == CHOOSE u \in Tasks : TRUE IN
       task = [u \in Tasks |-> IF u = t THEN [Job("start", "auth") EXCEPT !.next = "models"] ELSE Idle]
  /\ server = [l \in 1..MaxLogins |-> IF l <= logins THEN 1 ELSE 0] /\ stale = {}
  /\ jobs = 0 /\ outcome = memory.login /\ excused = {}

-----------------------------------------------------------------------------
\* The key of the environment is taken before that of the file.
Loaded(file) == IF environment THEN Token(EnvironmentKey, 1) ELSE file

Goes(t, next) == task' = [task EXCEPT ![t] = next]

\* A step that changes the login, or ends the change: what others read of it
\* before is not `fresh`.
Changes(t, next) == task' = [u \in Tasks |-> IF u = t THEN next ELSE [task[u] EXCEPT !.fresh = FALSE]]

At(t, place) == task[t].at = place
Others(t, places) == \E u \in Tasks \ {t} : task[u].at \in places

\* What follows from `auth`: the login to show, or the token of a request.
Taken(t) ==
  IF task[t].next = "models"
  THEN [task[t] EXCEPT !.login = memory.login, !.fresh = TRUE, !.at = "models"]
  ELSE [task[t] EXCEPT !.token = memory, !.at = task[t].next]

\* provider_state, from its beginning
Publication(job) == [Job(job, "auth") EXCEPT !.next = "models"]

\* An error ends a turn, whose state is then published; of a publication it is
\* shown, unless no login is needed to show that there is none.
Failed(t) ==
  IF task[t].job = "turn" THEN Publication("publish")
  ELSE IF task[t].next = "fetch" /\ task[t].login = 0
  THEN [task[t] EXCEPT !.token = NoToken, !.at = "publish"]
  ELSE [Job(task[t].job, "publish") EXCEPT !.ok = FALSE]

-----------------------------------------------------------------------------
(* Commands: an operation on the provider, and a turn that uses it.         *)

FirstStep(op) ==
  CASE op = "login" -> IF kind = "codex" THEN "exchange" ELSE "save"
    [] op = "logout" -> IF kind = "codex" THEN "revoke" ELSE "remove"
    [] op = "reload" -> "read"

\* start_provider_operation
StartOperation(t) ==
  /\ task[t] = Idle /\ jobs < MaxJobs
  /\ shown.lifecycle \notin Busy
  /\ \E op \in DOMAIN Operations :
       /\ shown' = [shown EXCEPT !.lifecycle = Operations[op]]
       /\ Goes(t, Job(op, FirstStep(op)))
  /\ jobs' = jobs + 1
  /\ UNCHANGED <<kind, environment, login, service, logins, history>>

StartTurn(t) ==
  /\ task[t] = Idle /\ jobs < MaxJobs
  /\ Goes(t, [Job("turn", "auth") EXCEPT !.next = "send"])
  /\ jobs' = jobs + 1
  /\ UNCHANGED <<kind, environment, login, shown, service, logins, history>>

-----------------------------------------------------------------------------
(* The operations change the file and read it again.                        *)

\* A change of the file while tokens are refreshed or recovered.
Crossing(t) == IF refreshing \in Tasks \ {t} THEN {"refresh"} ELSE {}

NewLogin == Token(logins + 1, 1)

SavesLogin(t) ==
  /\ logins < MaxLogins
  /\ disk' = NewLogin /\ server' = [server EXCEPT ![logins + 1] = 1]
  /\ logins' = logins + 1

IsRead(t) ==
  /\ excused' = excused \cup Crossing(t)
  /\ Goes(t, [task[t] EXCEPT !.at = "read"])

\* An error after the file was changed, which is then not read again.
IsUnread(t) ==
  /\ excused' = excused \cup {"unread"}
  /\ Goes(t, Failed(t))

\* exchange_code: what the browser's login ends with.  The browser may be gone
\* when it is answered.
Exchange(t) ==
  /\ At(t, "exchange")
  /\ \/ SavesLogin(t) /\ IsRead(t)
     \/ SavesLogin(t) /\ IsUnread(t)
     \/ Goes(t, Failed(t)) /\ UNCHANGED <<disk, server, logins, excused>>
  /\ UNCHANGED <<kind, environment, memory, refreshing, catalog, shown, stale, jobs, outcome>>

\* ApiKeyAuth::login: any key that is not empty; the file is emptied first.
SaveKey(t) ==
  /\ At(t, "save")
  /\ \/ SavesLogin(t) /\ IsRead(t)
     \/ disk' = NoToken /\ IsUnread(t) /\ UNCHANGED <<server, logins>>
     \/ Goes(t, Failed(t)) /\ UNCHANGED <<disk, server, logins, excused>>
  /\ UNCHANGED <<kind, environment, memory, refreshing, catalog, shown, stale, jobs, outcome>>

\* codex_auth::logout: the service may not hear of it.
Revoke(t) ==
  /\ At(t, "revoke")
  /\ server' \in {server} \cup IF disk = NoToken THEN {} ELSE {[server EXCEPT ![disk.login] = 0]}
  /\ Goes(t, [task[t] EXCEPT !.at = "remove"])
  /\ UNCHANGED <<kind, environment, login, shown, stale, logins, jobs, history>>

RemovesOnly(t) ==    \* mutant: the login in use is not read again
  /\ At(t, "remove")
  /\ disk' = NoToken
  /\ excused' = excused \cup Crossing(t)
  /\ Goes(t, [task[t] EXCEPT !.at = "clear"])
  /\ UNCHANGED <<kind, environment, memory, refreshing, catalog, shown, service, logins, jobs, outcome>>

RemoveFile(t) ==
  /\ At(t, "remove")
  /\ \/ disk' = NoToken /\ IsRead(t)
     \/ Goes(t, Failed(t)) /\ UNCHANGED <<disk, excused>>
  /\ UNCHANGED <<kind, environment, memory, refreshing, catalog, shown, service, logins, jobs, outcome>>

\* AuthManager::reload reads the file, then waits to store what it read.
ReadFile(t) ==
  /\ At(t, "read")
  /\ Goes(t, [task[t] EXCEPT !.token = Loaded(disk), !.at = "store"])
  /\ UNCHANGED <<kind, environment, login, shown, service, logins, jobs, history>>

StoreLogin(t) ==
  /\ At(t, "store")
  /\ memory' = task[t].token /\ outcome' = task[t].token.login
  /\ excused' = excused \cup IF task[t].token = Loaded(disk) THEN {} ELSE {"late"}
  /\ Changes(t, [task[t] EXCEPT !.at = "clear", !.token = NoToken])
  /\ UNCHANGED <<kind, environment, disk, refreshing, catalog, shown, service, logins, jobs>>

KeepsCatalog(t) ==    \* mutant: the models of the last login are kept
  /\ At(t, "clear")
  /\ Changes(t, Publication(task[t].job))
  /\ UNCHANGED <<kind, environment, login, shown, service, logins, jobs, outcome, excused>>

\* reload_auth_inner: the cached models go, then provider_state is published.
ClearCatalog(t) ==
  /\ At(t, "clear")
  /\ catalog' = 0
  /\ excused' = excused \cup IF Others(t, {"fetch"}) THEN {"fetch"} ELSE {}
  /\ Changes(t, Publication(task[t].job))
  /\ UNCHANGED <<kind, environment, disk, memory, refreshing, shown, service, logins, jobs, outcome>>

-----------------------------------------------------------------------------
(* AuthManager: the tokens of a request.                                    *)

\* Time passes.
Expire ==
  /\ kind = "codex" /\ memory \notin stale \cup {NoToken}
  /\ stale' = stale \cup {memory}
  /\ UNCHANGED <<kind, environment, login, shown, task, server, logins, jobs, history>>

Auth(t) ==
  /\ At(t, "auth")
  /\ Goes(t, IF memory \in stale THEN [task[t] EXCEPT !.at = "lock"] ELSE Taken(t))
  /\ UNCHANGED <<kind, environment, login, shown, service, logins, jobs, history>>

\* What refresh_locked begins with, while a login may be changing.
BeginRefresh(t) ==
  /\ refreshing' = t
  /\ excused' = excused \cup IF Others(t, {"read", "store"}) THEN {"refresh"} ELSE {}
  /\ Goes(t, [task[t] EXCEPT !.at = "refresh", !.token = memory])

\* refresh: with the lock, and only what still expires
Refresh(t) ==
  /\ At(t, "lock") /\ refreshing = Nobody
  /\ \/ memory # NoToken /\ memory \notin stale /\ Goes(t, [task[t] EXCEPT !.at = "take"])
        /\ UNCHANGED <<refreshing, excused>>
     \/ memory = NoToken /\ Goes(t, Failed(t)) /\ UNCHANGED <<refreshing, excused>>
     \/ memory \in stale /\ BeginRefresh(t)
  /\ UNCHANGED <<kind, environment, disk, memory, catalog, shown, service, logins, jobs, outcome>>

\* recover_unauthorized: the file may hold another token than was refused.
Recover(t) ==
  /\ At(t, "recover") /\ refreshing = Nobody
  /\ \/ /\ disk \notin {NoToken, task[t].token}
        /\ refreshing' = t
        /\ excused' = excused \cup IF Others(t, {"read", "store"}) THEN {"refresh"} ELSE {}
        /\ Goes(t, [task[t] EXCEPT !.token = disk, !.at = "put"])
     \/ /\ disk \in {NoToken, task[t].token} /\ memory = NoToken
        /\ Goes(t, Failed(t)) /\ UNCHANGED <<refreshing, excused>>
     \/ /\ disk \in {NoToken, task[t].token} /\ memory # NoToken
        /\ BeginRefresh(t)
  /\ UNCHANGED <<kind, environment, disk, memory, catalog, shown, service, logins, jobs, outcome>>

Accepts(token) == server[token.login] = token.number

\* The answer of the service, if it gets here.
RefreshAnswered(t) ==
  /\ At(t, "refresh")
  /\ LET l == task[t].token.login
         n == task[t].token.number + 1 IN
     \/ /\ Accepts(task[t].token) /\ n <= MaxRefreshes
        /\ server' = [server EXCEPT ![l] = n]
        /\ \/ /\ Goes(t, [task[t] EXCEPT !.token = Token(l, n), !.at = "write"])
              /\ UNCHANGED <<refreshing, excused>>
           \/ /\ refreshing' = Nobody
              /\ excused' = excused \cup {"lost"}
              /\ Goes(t, Failed(t))
     \/ /\ refreshing' = Nobody
        /\ Goes(t, Failed(t))
        /\ UNCHANGED <<server, excused>>
  /\ UNCHANGED <<kind, environment, disk, memory, catalog, shown, stale, logins, jobs, outcome>>

\* The file first, then the memory, unless the directory could not be synced.
WriteTokens(t) ==
  /\ At(t, "write")
  /\ disk' = task[t].token
  /\ \/ Goes(t, [task[t] EXCEPT !.at = "put"]) /\ UNCHANGED <<refreshing, excused>>
     \/ IsUnread(t) /\ refreshing' = Nobody
  /\ UNCHANGED <<kind, environment, memory, catalog, shown, service, logins, jobs, outcome>>

PutTokens(t) ==
  /\ At(t, "put")
  /\ memory' = task[t].token
  /\ refreshing' = Nobody
  /\ Goes(t, [task[t] EXCEPT !.at = "take"])
  /\ UNCHANGED <<kind, environment, disk, catalog, shown, service, logins, jobs, history>>

TakeToken(t) ==
  /\ At(t, "take")
  /\ Goes(t, Taken(t))
  /\ UNCHANGED <<kind, environment, login, shown, service, logins, jobs, history>>

-----------------------------------------------------------------------------
(* Requests with the token, sent once more when it is refused.              *)

Unauthorized(t) ==
  IF kind = "codex" /\ ~task[t].again THEN [task[t] EXCEPT !.again = TRUE, !.at = "recover"] ELSE Failed(t)

\* A turn's requests, as one.
SendAnswered(t) ==
  /\ At(t, "send")
  /\ \/ task[t].token # NoToken /\ Goes(t, Publication("publish"))
     \/ task[t].token # NoToken /\ Goes(t, Unauthorized(t))
     \/ Goes(t, Failed(t))
  /\ UNCHANGED <<kind, environment, login, shown, service, logins, jobs, history>>

\* models: the cached ones, or a request
SeeModels(t) ==
  /\ At(t, "models")
  /\ Goes(t, IF catalog # 0 THEN [task[t] EXCEPT !.models = catalog, !.at = "publish"]
             ELSE [task[t] EXCEPT !.at = "auth", !.next = "fetch", !.again = FALSE])
  /\ UNCHANGED <<kind, environment, login, shown, service, logins, jobs, history>>

WithModels(t, models) == [task[t] EXCEPT !.models = models, !.token = NoToken, !.again = FALSE, !.at = "publish"]

\* A catalog that is then kept.
CatalogAnswered(t) ==
  /\ task[t].token # NoToken
  /\ catalog' = task[t].token.login
  /\ Goes(t, WithModels(t, catalog'))

CodexModels(t) ==
  /\ At(t, "fetch") /\ kind = "codex"
  /\ \/ CatalogAnswered(t)
     \/ task[t].token # NoToken /\ Goes(t, Unauthorized(t)) /\ UNCHANGED catalog
     \/ Goes(t, Failed(t)) /\ UNCHANGED catalog
  /\ UNCHANGED <<kind, environment, disk, memory, refreshing, shown, service, logins, jobs, history>>

\* The list, then each model, as one.
OllamaModels(t) ==
  /\ At(t, "fetch") /\ kind = "ollama"
  /\ CatalogAnswered(t) \/ (Goes(t, Failed(t)) /\ UNCHANGED catalog)
  /\ UNCHANGED <<kind, environment, disk, memory, refreshing, shown, service, logins, jobs, history>>

\* Those of the known models that are live; nothing is kept.
OpencodeModels(t) ==
  /\ At(t, "fetch") /\ kind = "opencode"
  /\ Goes(t, WithModels(t, Public)) \/ Goes(t, Failed(t))
  /\ UNCHANGED <<kind, environment, login, shown, service, logins, jobs, history>>

Lifecycle(t) ==
  IF ~task[t].ok THEN "failed" ELSE IF task[t].login = 0 THEN "loginRequired" ELSE "loggedIn"

KeepsQuiet(t) ==     \* mutant: an operation that failed is only logged
  /\ At(t, "publish")
  /\ shown' = IF ~task[t].ok THEN shown ELSE
              [lifecycle |-> Lifecycle(t), login |-> task[t].login, models |-> task[t].models,
               fresh |-> task[t].fresh]
  /\ Goes(t, Idle)
  /\ UNCHANGED <<kind, environment, login, service, logins, jobs, history>>

\* ProviderUpdated replaces whatever is shown.
Publish(t) ==
  /\ At(t, "publish")
  /\ shown' = [lifecycle |-> Lifecycle(t), login |-> task[t].login, models |-> task[t].models,
               fresh |-> task[t].fresh]
  /\ Goes(t, Idle)
  /\ UNCHANGED <<kind, environment, login, service, logins, jobs, history>>

-----------------------------------------------------------------------------
\* Steps of a task that has a job, each of which the runtime takes, or the
\* service or the disk answers.
TaskStep(t) ==
  \/ SaveKey(t) \/ Revoke(t) \/ RemoveFile(t)
  \/ ReadFile(t) \/ StoreLogin(t) \/ ClearCatalog(t)
  \/ Auth(t) \/ Refresh(t) \/ Recover(t) \/ RefreshAnswered(t)
  \/ WriteTokens(t) \/ PutTokens(t) \/ TakeToken(t)
  \/ SendAnswered(t) \/ SeeModels(t) 
  \/ CodexModels(t) \/ OllamaModels(t) \/ OpencodeModels(t) \/ Publish(t)

Next ==
  \/ Expire
  \/ \E t \in Tasks : StartOperation(t) \/ StartTurn(t) \/ Exchange(t) \/ TaskStep(t)

\* The runtime goes on with some task that can go on: a request is answered or
\* fails.  The user owes the browser's login nothing.  (What the tasks have to do
\* is finite, so that this is enough; the code's runtime is fair to each task.)
Fairness == WF_vars(\E t \in Tasks : TaskStep(t))

Spec == Init /\ [][Next]_vars /\ Fairness

-----------------------------------------------------------------------------
Quiet == \A t \in Tasks : task[t] = Idle

\* A refresh token is used once, however many turns and publications find that
\* the access token expires, or are refused with it, at the same time: unless an
\* answer was lost, or a login changed meanwhile.  (AuthManager::refresh,
\* recover_unauthorized)
RefreshedOnce ==
  excused = {} =>
    \A t \in Tasks : At(t, "refresh") => server[task[t].token.login] \in {0, task[t].token.number}

\* The last operation on the login stands, in memory and in the file: only a
\* refresh that overlapped it, or another operation, undoes it, and only a file
\* whose writer failed after it had changed it is not the login in use: the hole
\* is that nothing reads it again.  (codex_auth::login, logout,
\* AuthManager::reload, refresh_locked, write_tokens)
LoginStands ==
  Quiet /\ excused \subseteq {"lost", "fetch"} => memory.login = outcome /\ memory = Loaded(disk)

\* When nothing goes on, the last publication that began after the login changed
\* shows that login and its models.  (provider_state, reload_auth_inner)
ShownIsTrue ==
  Quiet /\ shown.fresh /\ excused \subseteq {"lost"} /\ shown.lifecycle # "failed" =>
    /\ shown.lifecycle \notin Busy
    /\ shown.login = memory.login
    /\ shown.models \in {memory.login, Public}

\* An operation on the login has its effect, once.
LoginIsKept == TypeOK /\ RefreshedOnce /\ LoginStands

\* A provider is not shown as busy for ever, whatever fails, unless it is shown
\* to log in and the browser's login was not ended.  (start_provider_operation,
\* refreshing_provider_states)
LogsIn == shown.lifecycle = "loggingIn" /\ \E t \in Tasks : At(t, "exchange")
OperationsEnd == []<>(shown.lifecycle \in Busy => LogsIn)
=============================================================================
