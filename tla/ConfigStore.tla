----------------------------- MODULE ConfigStore -----------------------------
(***************************************************************************)
(* config.toml and those who read and write it: the daemon's main loop     *)
(* (a permission made permanent), its token refresh, its file watcher and  *)
(* the command line (login).  Sources: codivd/src/agent/models.rs,         *)
(* agent/streaming.rs, daemon.rs, codiv-common/src/auth/flows.rs and       *)
(* storage.rs, codiv/src/cli/login.rs.                                     *)
(*                                                                         *)
(* A writer reads the file, changes its copy and writes it back with       *)
(* fs::write: the file is first emptied, then filled.  Nothing locks it.   *)
(***************************************************************************)
EXTENDS Integers, Sequences, FiniteSets

CONSTANTS Providers, \* those with OAuth: "claude_code", "codex"
          Entries,   \* permissions the user may make permanent
          MaxOps     \* bound: saves, refreshes, commands and kills of the daemon

ASSUME ConfigAssumption ==
    /\ Providers \subseteq {"claude_code", "codex"}
    /\ MaxOps \in Nat

VARIABLES file,     \* config.toml
          memory,   \* the daemon's AppConfig
          running,  \* the daemon runs
          watching, \* its file watcher is registered
          missed,   \* somebody wrote after the daemon's load, before the watcher was there
          event,    \* the watcher has an event to handle
          notice,   \* the channel to the main loop holds a change
          job,      \* job[w]: what a writer is doing
          live,     \* refresh tokens the provider's server honours
          tokens,   \* tokens the server has issued: the number of the latest
          ops,      \* operations so far
          raced,    \* two writes, or a write and a read, have overlapped
          rejected, \* a file that was there has been replaced by the template
          want      \* what the file holds if each edit applies to the one before (until raced)

vars == <<file, memory, running, watching, missed, event, notice, job, live, tokens, ops, raced,
          rejected, want>>

Writers == {"loop", "refresh", "watcher", "cli"}
Daemon  == {"loop", "refresh", "watcher"}

NoToken == 0

\* models: default_provider and default_model are there, without which the
\* daemon cannot parse the file.  mine: the user's own settings are there.
\* refresh, access: the entries of [auth.tokens.p]; key: [providers.p] api_key;
\* uuid: the account a login found.
EmptyDoc ==
    [models |-> FALSE, mine |-> FALSE, allow |-> {},
     refresh |-> [p \in Providers |-> NoToken], access |-> [p \in Providers |-> NoToken],
     key |-> [p \in Providers |-> <<>>], uuid |-> [p \in Providers |-> NoToken]]

DefaultDoc == [EmptyDoc EXCEPT !.models = TRUE]
UsersDoc   == [DefaultDoc EXCEPT !.mine = TRUE]

Whole(doc) == [state |-> "whole", doc |-> doc]
NoDoc(how) == [state |-> how, doc |-> EmptyDoc]

----------------------------------------------------------------------------
(* Edits.                                                                  *)

\* Mutant of Apply: the key is left to a later edit.
ApplyWithoutKey(e, doc) ==
    CASE e.kind = "allow"    -> [doc EXCEPT !.allow = @ \cup {e.entry}]
      [] e.kind = "tokens"   -> [doc EXCEPT !.access[e.p] = e.access,
                                            !.refresh[e.p] = IF e.refresh = NoToken THEN @ ELSE e.refresh]
      [] e.kind = "key"      -> [doc EXCEPT !.key[e.p] = e.key]
      [] e.kind = "uuid"     -> [doc EXCEPT !.uuid[e.p] = e.account]
      [] e.kind = "template" -> DefaultDoc

\* What an edit makes of the document it has read.
Apply(e, doc) ==
    CASE e.kind = "allow"    -> [doc EXCEPT !.allow = @ \cup {e.entry}]
      [] e.kind = "tokens"   -> [doc EXCEPT !.access[e.p] = e.access, !.key[e.p] = <<"access", e.access>>,
                                            !.refresh[e.p] = IF e.refresh = NoToken THEN @ ELSE e.refresh]
      [] e.kind = "key"      -> [doc EXCEPT !.key[e.p] = e.key]
      [] e.kind = "uuid"     -> [doc EXCEPT !.uuid[e.p] = e.account]
      [] e.kind = "template" -> DefaultDoc

AllowEdit(x)        == [kind |-> "allow", entry |-> x]
TokensEdit(p, a, r) == [kind |-> "tokens", p |-> p, access |-> a, refresh |-> r]
KeyEdit(p, k)       == [kind |-> "key", p |-> p, key |-> k]
UuidEdit(p, a)      == [kind |-> "uuid", p |-> p, account |-> a]
Template            == [kind |-> "template"]

\* pc: idle, await (a response of the server), read (next: read the file),
\* cut (next: empty it), put (next: fill it).  edit: what is to be written.
\* login: the edits are those of a login.  doc: the copy.  base: what the edit
\* starts from: nothing yet, the file as it is, or a file rewritten since.
Idle == [pc |-> "idle", edit |-> Template, login |-> FALSE, doc |-> EmptyDoc, base |-> "none"]

Editing(e, login, base) == [Idle EXCEPT !.pc = "read", !.edit = e, !.login = login, !.base = base]

Set(w, j) == job' = [job EXCEPT ![w] = j]

Init ==
    /\ file \in {Whole(UsersDoc), NoDoc("absent")}
    /\ memory   = EmptyDoc
    /\ running  = FALSE
    /\ watching = FALSE
    /\ missed   = FALSE
    /\ event    = FALSE
    /\ notice   = FALSE
    /\ job      = [w \in Writers |-> Idle]
    /\ live     = {}
    /\ tokens   = 0
    /\ ops      = 0
    /\ raced    = FALSE
    /\ rejected = FALSE
    /\ want     = file.doc

----------------------------------------------------------------------------
(* A write.                                                                *)

\* Mutant of Read: every edit starts from an empty document.
ReadNothing(w) ==
    /\ job[w].pc = "read"
    /\ Set(w, [job[w] EXCEPT !.pc = "cut", !.doc = Apply(job[w].edit, EmptyDoc),
                             !.base = IF @ = "none" THEN "fresh" ELSE @])
    /\ raced' = (raced \/ file.state = "empty")
    /\ UNCHANGED <<file, memory, running, watching, missed, event, notice, live, tokens, ops, rejected, want>>

\* load_doc: what cannot be read or parsed counts as empty.
Read(w) ==
    /\ job[w].pc = "read"
    /\ Set(w, [job[w] EXCEPT !.pc = "cut", !.doc = Apply(job[w].edit, file.doc),
                             !.base = IF @ = "none" THEN "fresh" ELSE @])
    /\ raced' = (raced \/ file.state = "empty")
    /\ UNCHANGED <<file, memory, running, watching, missed, event, notice, live, tokens, ops, rejected, want>>

\* The watcher hears of a write once it is registered; a write of another
\* process may come after the daemon has loaded the file and before that.
Announce(w) ==
    /\ event' = watching
    /\ missed' = (missed \/ (running /\ ~ watching /\ w # "watcher"))

Truncate(w) ==
    /\ job[w].pc = "cut"
    /\ Set(w, [job[w] EXCEPT !.pc = "put"])
    /\ file' = NoDoc("empty")
    /\ Announce(w)
    /\ UNCHANGED <<memory, running, watching, notice, live, tokens, ops, raced, rejected, want>>

\* Nobody asked for the template to replace what was there.
Wanted(e) == IF e.kind = "template" THEN [want EXCEPT !.models = TRUE] ELSE Apply(e, want)

\* What follows an edit: a key for the id_token (codex), the account of a login
\* (claude_code); both may fail.
FollowUps(w) ==
    LET j == job[w]  p == j.edit.p IN
    IF j.edit.kind # "tokens" THEN {Idle}
    ELSE {Idle} \cup (IF p = "codex"
                      THEN {Editing(KeyEdit(p, <<"api", j.edit.access>>), j.login, "none")}
                      ELSE IF j.login THEN {Editing(UuidEdit(p, j.edit.access), j.login, "none")} ELSE {})

\* The document replaces the file, or what another writer has put in the
\* meantime: then the longer one shows at the end.
Put(w) ==
    /\ job[w].pc = "put"
    /\ file' \in {Whole(job[w].doc)} \cup IF file.state = "empty" THEN {} ELSE {NoDoc("garbled")}
    /\ Announce(w)
    /\ raced' = (raced \/ job[w].base = "stale")
    /\ want' = IF raced' THEN EmptyDoc ELSE Wanted(job[w].edit)
    /\ \E j \in FollowUps(w) :
         job' = [v \in Writers |-> IF v = w THEN j
                                   ELSE IF job[v].base = "fresh" THEN [job[v] EXCEPT !.base = "stale"]
                                   ELSE job[v]]
    /\ IF w = "watcher" THEN memory' = DefaultDoc /\ notice' = watching ELSE UNCHANGED <<memory, notice>>
    /\ UNCHANGED <<running, watching, live, tokens, ops, rejected>>

----------------------------------------------------------------------------
(* Who writes.                                                             *)

Operates == ops < MaxOps /\ ops' = ops + 1

\* The user makes a permission permanent.  The main loop does nothing else
\* until it is written.
AddPermissionToConfig ==
    /\ Operates /\ watching
    /\ job["loop"].pc = "idle"
    /\ \E x \in Entries : Set("loop", Editing(AllowEdit(x), FALSE, "none"))
    /\ UNCHANGED <<file, memory, running, watching, missed, event, notice, live, tokens, raced, rejected, want>>

\* The stored token is about to expire; its refresh token goes to the server.
MaybeRefreshStoredToken(p) ==
    /\ Operates /\ watching
    /\ job["refresh"].pc = "idle"
    /\ file.doc.refresh[p] # NoToken
    /\ Set("refresh", [Idle EXCEPT !.pc = "await", !.edit = TokensEdit(p, NoToken, file.doc.refresh[p]),
                                   !.base = "fresh"])
    /\ UNCHANGED <<file, memory, running, watching, missed, event, notice, live, tokens, raced, rejected, want>>

\* Mutant of Refreshed: the token that was sent is kept.
RefreshedKeepingOld ==
    LET j == job["refresh"]  old == j.edit.refresh  t == tokens + 1 IN
    /\ j.pc = "await" /\ old \in live
    /\ tokens' = t
    /\ live' \in {live, (live \ {old}) \cup {t}}
    /\ Set("refresh", Editing(TokensEdit(j.edit.p, t, old), FALSE, j.base))
    /\ UNCHANGED <<file, memory, running, watching, missed, event, notice, ops, raced, rejected, want>>

\* The server honours it and answers with a new access token and, as a rule, a
\* new refresh token in its place; the old one is carried forward otherwise.
Refreshed ==
    LET j == job["refresh"]  old == j.edit.refresh  t == tokens + 1 IN
    /\ j.pc = "await" /\ old \in live
    /\ tokens' = t
    /\ \E rotates \in BOOLEAN :
         /\ live' = IF rotates THEN (live \ {old}) \cup {t} ELSE live
         /\ Set("refresh", Editing(TokensEdit(j.edit.p, t, IF rotates THEN t ELSE old), FALSE, j.base))
    /\ UNCHANGED <<file, memory, running, watching, missed, event, notice, ops, raced, rejected, want>>

NotRefreshed ==
    /\ job["refresh"].pc = "await"
    /\ Set("refresh", Idle)
    /\ UNCHANGED <<file, memory, running, watching, missed, event, notice, live, tokens, ops, raced, rejected, want>>

\* The browser has delivered a code and the server its tokens; the response to
\* a login may leave the refresh token out.
Login(p) ==
    /\ Operates
    /\ job["cli"].pc = "idle"
    /\ tokens' = tokens + 1
    /\ \E r \in {NoToken, tokens + 1} :
         /\ live' = live \cup ({r} \ {NoToken})
         /\ Set("cli", Editing(TokensEdit(p, tokens + 1, r), TRUE, "none"))
    /\ UNCHANGED <<file, memory, running, watching, missed, event, notice, raced, rejected, want>>

----------------------------------------------------------------------------
(* The daemon reads.                                                       *)

\* AppConfig::load: a file that is not there or does not parse is replaced by
\* the template.
Load(loads) ==
    IF loads THEN /\ memory' = file.doc
                  /\ UNCHANGED <<job, raced, rejected>>
    ELSE /\ Set("watcher", [Idle EXCEPT !.pc = "cut", !.doc = DefaultDoc, !.base = "fresh"])
         /\ raced' = (raced \/ file.state = "empty")
         /\ rejected' = (rejected \/ file.state = "whole")
         /\ UNCHANGED memory

Parses == file.state = "whole" /\ file.doc.models

StartDaemon ==
    /\ ~running /\ job["watcher"].pc = "idle"
    /\ running' = TRUE
    /\ Load(Parses)
    /\ UNCHANGED <<file, watching, missed, event, notice, live, tokens, ops, want>>

\* into_watched: the load, the template it may write included, is over.
Watch ==
    /\ running /\ ~watching /\ job["watcher"].pc = "idle"
    /\ watching' = TRUE
    /\ UNCHANGED <<file, memory, running, missed, event, notice, job, live, tokens, ops, raced, rejected, want>>

\* Mutants of OnFileEvent: the watcher tells the main loop without reading;
\* it writes the file each time.
TellOnly ==
    /\ watching /\ event /\ job["watcher"].pc = "idle"
    /\ event' = FALSE /\ missed' = FALSE
    /\ notice' = TRUE
    /\ UNCHANGED <<file, memory, running, watching, job, live, tokens, ops, raced, rejected, want>>

AlwaysWrite ==
    /\ watching /\ event /\ job["watcher"].pc = "idle"
    /\ event' = FALSE /\ missed' = FALSE
    /\ Load(FALSE)
    /\ UNCHANGED <<file, running, watching, notice, live, tokens, ops, want>>

OnFileEvent ==
    /\ watching /\ event /\ job["watcher"].pc = "idle"
    /\ event' = FALSE /\ missed' = FALSE
    /\ Load(Parses)
    /\ notice' = (notice \/ Parses)
    /\ UNCHANGED <<file, running, watching, live, tokens, ops, want>>

\* The main loop tells the clients and applies the configuration.
OnConfigChange ==
    /\ running /\ notice /\ job["loop"].pc = "idle"
    /\ notice' = FALSE
    /\ UNCHANGED <<file, memory, running, watching, missed, event, job, live, tokens, ops, raced, rejected, want>>

\* The daemon is killed, perhaps between emptying and filling the file, or with
\* tokens the server has issued and nobody has stored.
KillDaemon ==
    /\ Operates /\ running
    /\ running' = FALSE /\ watching' = FALSE /\ missed' = FALSE
    /\ memory' = EmptyDoc
    /\ event' = FALSE /\ notice' = FALSE
    /\ raced' = (raced \/ \E w \in Daemon : job[w].pc \notin {"idle", "await"})
    /\ job' = [w \in Writers |-> IF w \in Daemon THEN Idle ELSE job[w]]
    /\ UNCHANGED <<file, live, tokens, rejected, want>>

Write(w) == Read(w) \/ Truncate(w) \/ Put(w)

DaemonStep == StartDaemon \/ Watch \/ OnFileEvent \/ OnConfigChange \/ Refreshed \/ NotRefreshed

Next ==
    \/ DaemonStep \/ KillDaemon \/ AddPermissionToConfig
    \/ \E p \in Providers : MaybeRefreshStoredToken(p) \/ Login(p)
    \/ \E w \in Writers : Write(w)

\* Threads, tasks and the command line are scheduled; nobody has to start an
\* operation, and the daemon need not be started again.
Fairness ==
    /\ WF_vars(Watch)
    /\ WF_vars(OnFileEvent)
    /\ WF_vars(OnConfigChange)
    /\ WF_vars(Refreshed \/ NotRefreshed)
    /\ \A w \in Writers : WF_vars(Write(w))

Spec == Init /\ [][Next]_vars /\ Fairness

----------------------------------------------------------------------------

Resting == \A w \in Writers : job[w].pc = "idle"

\* As long as no two accesses overlap and the template has replaced nothing,
\* the file holds what every writer has put there: a permission, a login and a
\* refresh leave each other's sections alone (load_doc, save_doc).
NothingLost ==
    ~ raced /\ ~ rejected /\ file.state = "whole" => file.doc = want

\* Then the refresh token in the file is one the server honours, so the user
\* need not log in again, unless one is on its way into the file or was lost
\* with the daemon (maybe_refresh_stored_token).
StoredTokenHonoured ==
    ~ raced /\ job["refresh"].pc = "idle" =>
        \A p \in Providers : file.doc.refresh[p] # NoToken => file.doc.refresh[p] \in live

\* Whoever overtakes whom, the key Claude is called with is its stored access
\* token: both are written at once (write_oauth_tokens_to_config).  Codex has a
\* second edit for the key it exchanged, which another login may overtake.
KeyOfToken ==
    \A p \in Providers \ {"codex"} :
        file.doc.access[p] # NoToken => file.doc.key[p] = <<"access", file.doc.access[p]>>

\* When the dust has settled, the daemon works with what the file says, even if
\* it overwrote the file itself, unless somebody wrote between its load and the
\* registration of its watcher: of that it hears at the next change
\* (AppConfig::load, into_watched, ConfigWatcherGuard).
MemoryIsFile ==
    running /\ ~ event /\ ~ missed /\ Resting => file.state = "whole" /\ memory = file.doc

\* The dust settles: loading a file does not keep the watcher busy with its own
\* writes, and every change reaches the main loop.
SettlesAgain == []<>(~ event /\ ~ notice /\ Resting)

\* A login reaches the daemon (storage.rs:57).
LoginReachesDaemon ==
    watching /\ ~ event /\ ~ missed /\ Resting =>
        \A p \in Providers : want.key[p] # <<>> => memory.key[p] # <<>>
=============================================================================
