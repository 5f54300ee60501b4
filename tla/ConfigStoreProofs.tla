-------------------------- MODULE ConfigStoreProofs --------------------------
(***************************************************************************)
(* What holds of config.toml for any number of operations, entries and     *)
(* overlapping writers: the daemon ends with what the file says, a key     *)
(* stays with its token and, unless accesses overlap, no edit is lost and  *)
(* the stored refresh token is one the server honours.                     *)
(***************************************************************************)
EXTENDS ConfigStore, TLAPS

Keys == {<<>>} \cup ({"access", "api"} \X Nat)

Docs0 == [models : BOOLEAN, mine : BOOLEAN, allow : SUBSET Entries,
          refresh : [Providers -> Nat], access : [Providers -> Nat],
          key : [Providers -> Keys], uuid : [Providers -> Nat]]

TokensEdits == {TokensEdit(p, a, r) : p \in Providers, a \in Nat, r \in Nat}

Edits == {Template} \cup {AllowEdit(x) : x \in Entries}
         \cup TokensEdits
         \cup {KeyEdit(p, k) : p \in Providers \cap {"codex"}, k \in {"api"} \X Nat}
         \cup {UuidEdit(p, a) : p \in Providers, a \in Nat}

Paired(doc) ==
    \A p \in Providers \ {"codex"} : doc.access[p] # NoToken => doc.key[p] = <<"access", doc.access[p]>>

PairedDocs == {doc \in Docs0 : Paired(doc)}

\* Only a refresh awaits the server.
Jobs == {j \in [pc : {"idle", "await", "read", "cut", "put"}, edit : Edits, login : BOOLEAN,
                doc : PairedDocs, base : {"none", "fresh", "stale"}] :
            j.pc = "await" => j.edit \in TokensEdits}

Files == [state : {"absent", "empty", "garbled", "whole"}, doc : PairedDocs]

\* Every document, in the file and in the hands of a writer, pairs keys with
\* their tokens; only codex ever has a key of its own.
DocInv ==
    /\ file \in Files
    /\ job \in [Writers -> Jobs]
    /\ tokens \in Nat

\* Unless the watcher has something to handle or is at it, or somebody wrote
\* before it was there, the daemon has read the file as it is.  The daemon's
\* load and its watcher write nothing but the template, on a file they emptied.
WatchInv ==
    /\ job["watcher"].edit = Template
    /\ job["watcher"].pc # "idle" => job["watcher"].pc \in {"cut", "put"} /\ job["watcher"].doc = DefaultDoc
    /\ running /\ ~ event /\ ~ missed =>
           \/ file.state = "whole" /\ memory = file.doc
           \/ job["watcher"].pc \in {"cut", "put"}
    /\ running /\ ~ watching /\ ~ missed /\ job["watcher"].pc = "put" => file.state = "empty"

IInv == DocInv /\ WatchInv

----------------------------------------------------------------------------
(* Documents.                                                              *)

\* No document without tokens has a key to pair.
LEMMA EmptyDocs == EmptyDoc \in PairedDocs /\ DefaultDoc \in PairedDocs /\ UsersDoc \in PairedDocs
BY DEF EmptyDoc, DefaultDoc, UsersDoc, PairedDocs, Paired, Docs0, Keys, NoToken

\* Every edit keeps keys and tokens paired.
LEMMA ApplyPairs ==
    ASSUME NEW edit \in Edits, NEW doc \in PairedDocs
    PROVE  Apply(edit, doc) \in PairedDocs
<1>1. CASE edit = Template
  BY <1>1, EmptyDocs DEF Apply, Template
<1>. DEFINE d == Apply(edit, doc)
<1>. doc \in Docs0 /\ Paired(doc)
  BY DEF PairedDocs
<1>2. CASE \E x \in Entries : edit = AllowEdit(x)
  <2>1. PICK x \in Entries : edit = AllowEdit(x)
    BY <1>2
  <2>2. d = [doc EXCEPT !.allow = @ \cup {x}]
    BY <2>1 DEF Apply, AllowEdit
  <2>3. d \in Docs0 /\ d.access = doc.access /\ d.key = doc.key
    BY <2>2 DEF Docs0
  <2>. QED  BY <2>3 DEF PairedDocs, Paired
<1>3. CASE \E p \in Providers, a \in Nat, r \in Nat : edit = TokensEdit(p, a, r)
  <2>1. PICK p \in Providers, a \in Nat, r \in Nat : edit = TokensEdit(p, a, r)
    BY <1>3
  <2>. DEFINE s == IF r = NoToken THEN doc.refresh[p] ELSE r
  <2>2. d = [doc EXCEPT !.access[p] = a, !.key[p] = <<"access", a>>, !.refresh[p] = s]
    BY <2>1 DEF Apply, TokensEdit
  <2>3. s \in Nat /\ <<"access", a>> \in Keys
    BY DEF Docs0, Keys
  <2>. HIDE DEF s
  <2>4. d \in Docs0
    <3>1. /\ [doc.access EXCEPT ![p] = a] \in [Providers -> Nat]
          /\ [doc.refresh EXCEPT ![p] = s] \in [Providers -> Nat]
          /\ [doc.key EXCEPT ![p] = <<"access", a>>] \in [Providers -> Keys]
      BY <2>3 DEF Docs0
    <3>2. d = [doc EXCEPT !.access = [doc.access EXCEPT ![p] = a],
                          !.key = [doc.key EXCEPT ![p] = <<"access", a>>],
                          !.refresh = [doc.refresh EXCEPT ![p] = s]]
      BY <2>2 DEF Docs0
    <3>. QED  BY <3>1, <3>2 DEF Docs0
  <2>5. d.access = [doc.access EXCEPT ![p] = a] /\ d.key = [doc.key EXCEPT ![p] = <<"access", a>>]
    BY <2>2 DEF Docs0
  <2>6. Paired(d)
    BY <2>5 DEF Paired, Docs0
  <2>. QED  BY <2>4, <2>6 DEF PairedDocs
<1>4. CASE \E p \in Providers \cap {"codex"}, k \in {"api"} \X Nat : edit = KeyEdit(p, k)
  <2>1. PICK p \in Providers \cap {"codex"}, k \in {"api"} \X Nat : edit = KeyEdit(p, k)
    BY <1>4
  <2>2. d = [doc EXCEPT !.key[p] = k]
    BY <2>1 DEF Apply, KeyEdit
  <2>3. k \in Keys
    BY DEF Keys
  <2>4. d \in Docs0
    BY <2>2, <2>3 DEF Docs0
  <2>5. d.access = doc.access /\ d.key = [doc.key EXCEPT ![p] = k]
    BY <2>2 DEF Docs0
  <2>6. Paired(d)
    BY <2>5 DEF Paired, Docs0
  <2>. QED  BY <2>4, <2>6 DEF PairedDocs
<1>5. CASE \E p \in Providers, a \in Nat : edit = UuidEdit(p, a)
  <2>1. PICK p \in Providers, a \in Nat : edit = UuidEdit(p, a)
    BY <1>5
  <2>2. d = [doc EXCEPT !.uuid[p] = a]
    BY <2>1 DEF Apply, UuidEdit
  <2>3. d \in Docs0 /\ d.access = doc.access /\ d.key = doc.key
    BY <2>2 DEF Docs0
  <2>. QED  BY <2>3 DEF PairedDocs, Paired
<1>. QED  BY <1>1, <1>2, <1>3, <1>4, <1>5 DEF Edits, TokensEdits

\* What a login and a refresh edit next are edits, too.
LEMMA FollowUpJobs ==
    ASSUME job \in [Writers -> Jobs], NEW w \in Writers, NEW j \in FollowUps(w)
    PROVE  j \in Jobs
<1>1. Idle \in Jobs
  BY EmptyDocs DEF Idle, Jobs, Edits
<1>2. CASE job[w].edit.kind # "tokens"
  BY <1>1, <1>2 DEF FollowUps
<1>3. CASE job[w].edit.kind = "tokens"
  <2>1. PICK p \in Providers, a \in Nat, r \in Nat : job[w].edit = TokensEdit(p, a, r)
    BY <1>3 DEF Jobs, Edits, TokensEdits, Template, AllowEdit, KeyEdit, UuidEdit
  <2>2. job[w].edit.p = p /\ job[w].edit.access = a
    BY <2>1 DEF TokensEdit
  <2>3. job[w].login \in BOOLEAN
    BY DEF Jobs
  <2>4. \/ j = Idle
        \/ p = "codex" /\ j = Editing(KeyEdit(p, <<"api", a>>), job[w].login, "none")
        \/ j = Editing(UuidEdit(p, a), job[w].login, "none")
    BY <1>3, <2>2 DEF FollowUps
  <2>5. p = "codex" => KeyEdit(p, <<"api", a>>) \in Edits
    BY DEF Edits
  <2>6. UuidEdit(p, a) \in Edits
    BY DEF Edits
  <2>. QED  BY <1>1, <2>3, <2>4, <2>5, <2>6 DEF Editing, Idle, Jobs
<1>. QED  BY <1>2, <1>3

----------------------------------------------------------------------------
(* The inductive invariant.                                                *)

\* The user's file, or none, is in order.
LEMMA InitInv == Init => IInv
<1>. SUFFICES ASSUME Init PROVE IInv
  OBVIOUS
<1>1. file \in Files
  BY EmptyDocs DEF Init, Whole, NoDoc, Files
<1>2. Idle \in Jobs
  BY EmptyDocs DEF Idle, Jobs, Edits
<1>3. job \in [Writers -> Jobs] /\ tokens \in Nat
  BY <1>2 DEF Init
<1>4. job["watcher"].pc = "idle" /\ job["watcher"].edit = Template /\ ~ running
  BY DEF Init, Writers, Idle
<1>5. WatchInv
  BY <1>4 DEF WatchInv
<1>. QED  BY <1>1, <1>3, <1>5 DEF IInv, DocInv

\* No writer breaks a pair, and every edit under way is a legal one.
LEMMA DocStep == DocInv /\ [Next]_vars => DocInv'
<1>. SUFFICES ASSUME DocInv, [Next]_vars PROVE DocInv'
  OBVIOUS
<1>. USE DEF DocInv
<1>0. Idle \in Jobs
  BY EmptyDocs DEF Idle, Jobs, Edits
<1>a. \A w \in Writers, j \in Jobs : [job EXCEPT ![w] = j] \in [Writers -> Jobs]
  OBVIOUS
<1>b. \A edit \in Edits, login \in BOOLEAN, base \in {"none", "fresh", "stale"} : Editing(edit, login, base) \in Jobs
  BY <1>0 DEF Editing, Idle, Jobs
<1>c. NoDoc("empty") \in Files /\ NoDoc("garbled") \in Files /\ \A doc \in PairedDocs : Whole(doc) \in Files
  BY EmptyDocs DEF NoDoc, Whole, Files
<1>1. CASE UNCHANGED vars
  BY <1>1 DEF vars
<1>l. ASSUME NEW loads, Load(loads), file' = file, tokens' = tokens PROVE DocInv'
  <2>1. [Idle EXCEPT !.pc = "cut", !.doc = DefaultDoc, !.base = "fresh"] \in Jobs
    BY <1>0, EmptyDocs DEF Idle, Jobs
  <2>. QED  BY <1>l, <2>1, <1>a DEF Load, Set, Writers
<1>2. CASE StartDaemon
  BY <1>2, <1>l DEF StartDaemon
<1>3. CASE OnFileEvent
  BY <1>3, <1>l DEF OnFileEvent
<1>4. CASE OnConfigChange
  BY <1>4 DEF OnConfigChange
<1>14. CASE Watch
  BY <1>14 DEF Watch
<1>5. CASE Refreshed
  <2>. DEFINE j == job["refresh"]
              t == tokens + 1
  <2>1. PICK r \in {t, j.edit.refresh} : job' = [job EXCEPT !["refresh"] = Editing(TokensEdit(j.edit.p, t, r), FALSE, j.base)]
    BY <1>5 DEF Refreshed, Set
  <2>2. PICK q \in Providers, a \in Nat, n \in Nat : j.edit = TokensEdit(q, a, n)
    BY <1>5 DEF Refreshed, Jobs, TokensEdits, Writers
  <2>3. j.edit.p \in Providers /\ r \in Nat
    BY <2>2 DEF TokensEdit
  <2>4. TokensEdit(j.edit.p, t, r) \in Edits
    BY <2>3 DEF Edits, TokensEdits
  <2>5. j.base \in {"none", "fresh", "stale"}
    BY DEF Jobs, Writers
  <2>6. Editing(TokensEdit(j.edit.p, t, r), FALSE, j.base) \in Jobs
    BY <2>4, <2>5, <1>b
  <2>7. job' \in [Writers -> Jobs]
    BY <2>1, <2>6, <1>a DEF Writers
  <2>. QED  BY <1>5, <2>7 DEF Refreshed
<1>6. CASE NotRefreshed
  BY <1>6, <1>0, <1>a DEF NotRefreshed, Set, Writers
<1>7. CASE KillDaemon
  BY <1>7, <1>0 DEF KillDaemon
<1>8. CASE AddPermissionToConfig
  <2>1. PICK x \in Entries : job' = [job EXCEPT !["loop"] = Editing(AllowEdit(x), FALSE, "none")]
    BY <1>8 DEF AddPermissionToConfig, Set
  <2>2. AllowEdit(x) \in Edits
    BY DEF Edits
  <2>. QED  BY <1>8, <2>1, <2>2, <1>a, <1>b DEF AddPermissionToConfig, Writers
<1>9. ASSUME NEW p \in Providers, MaybeRefreshStoredToken(p) PROVE DocInv'
  <2>. DEFINE edit == TokensEdit(p, NoToken, file.doc.refresh[p])
  <2>0. file.doc.refresh[p] \in Nat
    BY DEF Files, PairedDocs, Docs0
  <2>1. edit \in TokensEdits
    BY <2>0 DEF TokensEdits, NoToken
  <2>. HIDE DEF edit
  <2>b. edit \in Edits
    BY <2>1 DEF Edits
  <2>2. [Idle EXCEPT !.pc = "await", !.edit = edit, !.base = "fresh"] \in Jobs
    BY <2>1, <2>b, <1>0 DEF Jobs, Idle
  <2>. QED  BY <1>9, <2>2, <1>a DEF MaybeRefreshStoredToken, Set, Writers, edit
<1>10. ASSUME NEW p \in Providers, Login(p) PROVE DocInv'
  <2>1. PICK r \in {NoToken, tokens + 1} : job' = [job EXCEPT !["cli"] = Editing(TokensEdit(p, tokens + 1, r), TRUE, "none")]
    BY <1>10 DEF Login, Set
  <2>2. TokensEdit(p, tokens + 1, r) \in Edits
    BY DEF Edits, TokensEdits, NoToken
  <2>3. Editing(TokensEdit(p, tokens + 1, r), TRUE, "none") \in Jobs
    BY <2>2, <1>b
  <2>4. job' \in [Writers -> Jobs]
    BY <2>1, <2>3, <1>a DEF Writers
  <2>. QED  BY <1>10, <2>4 DEF Login
<1>11. ASSUME NEW w \in Writers, Read(w) PROVE DocInv'
  <2>1. Apply(job[w].edit, file.doc) \in PairedDocs
    BY ApplyPairs DEF Jobs, Files
  <2>2. job[w] \in Jobs
    OBVIOUS
  <2>3. [job[w] EXCEPT !.pc = "cut", !.doc = Apply(job[w].edit, file.doc),
                       !.base = IF @ = "none" THEN "fresh" ELSE @] \in Jobs
    BY <2>1, <2>2 DEF Jobs
  <2>. QED  BY <1>11, <2>3, <1>a DEF Read, Set
<1>12. ASSUME NEW w \in Writers, Truncate(w) PROVE DocInv'
  <2>1. [job[w] EXCEPT !.pc = "put"] \in Jobs
    BY DEF Jobs
  <2>. QED  BY <1>12, <2>1, <1>a, <1>c DEF Truncate, Set
<1>13. ASSUME NEW w \in Writers, Put(w) PROVE DocInv'
  <2>1. file' \in Files
    BY <1>13, <1>c DEF Put, Jobs
  <2>2. PICK j \in FollowUps(w) :
          job' = [v \in Writers |-> IF v = w THEN j
                                    ELSE IF job[v].base = "fresh" THEN [job[v] EXCEPT !.base = "stale"]
                                    ELSE job[v]]
    BY <1>13 DEF Put
  <2>3. j \in Jobs
    BY FollowUpJobs
  <2>4. \A v \in Writers : [job[v] EXCEPT !.base = "stale"] \in Jobs
    BY DEF Jobs
  <2>5. job' \in [Writers -> Jobs]
    BY <2>2, <2>3, <2>4
  <2>. QED  BY <1>13, <2>1, <2>5 DEF Put
<1>. QED  BY <1>1, <1>2, <1>3, <1>4, <1>14, <1>5, <1>6, <1>7, <1>8, <1>9, <1>10, <1>11, <1>12, <1>13 DEF Next, DaemonStep, Write

\* A write announces itself, or comes too early, and only the watcher, when it
\* reads, settles it.
LEMMA WatchStep == IInv /\ [Next]_vars => WatchInv'
<1>. SUFFICES ASSUME DocInv, WatchInv, [Next]_vars PROVE WatchInv'
  BY DEF IInv
<1>. USE DEF WatchInv
<1>0. job \in [Writers -> Jobs] /\ "watcher" \in Writers
  BY DEF DocInv, Writers
<1>1. CASE UNCHANGED vars
  BY <1>1 DEF vars
<1>l. ASSUME file' = file, Load(Parses), job["watcher"].pc = "idle" PROVE WatchInv'
  <2>1. CASE Parses
    BY <1>l, <2>1 DEF Load, Parses
  <2>2. CASE ~ Parses
    <3>1. job' = [job EXCEPT !["watcher"] = [Idle EXCEPT !.pc = "cut", !.doc = DefaultDoc, !.base = "fresh"]]
      BY <1>l, <2>2 DEF Load, Set
    <3>2. LET j == job'["watcher"] IN j.pc = "cut" /\ j.doc = DefaultDoc /\ j.edit = Template
      BY <3>1, <1>0 DEF Idle
    <3>. QED  BY <3>2
  <2>. QED  BY <2>1, <2>2
<1>2. CASE StartDaemon
  BY <1>2, <1>l DEF StartDaemon
<1>3. CASE OnFileEvent
  BY <1>3, <1>l DEF OnFileEvent
<1>4. CASE OnConfigChange
  BY <1>4 DEF OnConfigChange
<1>14. CASE Watch
  BY <1>14 DEF Watch
<1>s. ASSUME NEW w \in Writers \ {"watcher"}, NEW j, Set(w, j) PROVE job'["watcher"] = job["watcher"]
  BY <1>s, <1>0 DEF Set
<1>5. CASE Refreshed
  BY <1>5, <1>s DEF Refreshed, Writers
<1>6. CASE NotRefreshed
  BY <1>6, <1>s DEF NotRefreshed, Writers
<1>7. CASE KillDaemon
  <2>1. job'["watcher"] = Idle /\ ~ running'
    BY <1>0, <1>7 DEF KillDaemon, Daemon
  <2>. QED  BY <2>1 DEF Idle
<1>8. CASE AddPermissionToConfig
  BY <1>8, <1>s DEF AddPermissionToConfig, Writers
<1>9. ASSUME NEW p \in Providers, MaybeRefreshStoredToken(p) PROVE WatchInv'
  BY <1>9, <1>s DEF MaybeRefreshStoredToken, Writers
<1>10. ASSUME NEW p \in Providers, Login(p) PROVE WatchInv'
  BY <1>10, <1>s DEF Login, Writers
<1>11. ASSUME NEW w \in Writers, Read(w) PROVE WatchInv'
  <2>1. w # "watcher"
    BY <1>11 DEF Read
  <2>. QED  BY <1>11, <2>1, <1>s DEF Read
<1>12. ASSUME NEW w \in Writers, Truncate(w) PROVE WatchInv'
  <2>1. job' = [job EXCEPT ![w] = [job[w] EXCEPT !.pc = "put"]] /\ job[w].pc = "cut"
    BY <1>12 DEF Truncate, Set
  <2>2. running' = running /\ watching' = watching /\ event' = watching /\ memory' = memory
    BY <1>12 DEF Truncate, Announce
  <2>3. missed' = (missed \/ (running /\ ~ watching /\ w # "watcher")) /\ file'.state = "empty"
    BY <1>12 DEF Truncate, Announce, NoDoc
  <2>4. CASE w = "watcher"
    <3>1. LET j == job'["watcher"] IN j.pc = "put" /\ j.doc = job["watcher"].doc /\ j.edit = job["watcher"].edit
      BY <1>0, <2>1, <2>4 DEF Jobs
    <3>. QED  BY <2>1, <2>3, <2>4, <3>1
  <2>5. CASE w # "watcher"
    <3>1. job'["watcher"] = job["watcher"]
      BY <1>0, <2>1, <2>5
    <3>. QED  BY <2>2, <2>3, <2>5, <3>1
  <2>. QED  BY <2>4, <2>5
<1>13. ASSUME NEW w \in Writers, Put(w) PROVE WatchInv'
  <2>1. PICK j \in FollowUps(w) :
          job' = [v \in Writers |-> IF v = w THEN j
                                    ELSE IF job[v].base = "fresh" THEN [job[v] EXCEPT !.base = "stale"]
                                    ELSE job[v]]
    BY <1>13 DEF Put
  <2>2. running' = running /\ watching' = watching /\ event' = watching /\ job[w].pc = "put"
    BY <1>13 DEF Put, Announce
  <2>3. missed' = (missed \/ (running /\ ~ watching /\ w # "watcher"))
    BY <1>13 DEF Put, Announce
  <2>4. CASE w = "watcher"
    <3>1. j = Idle
      BY <2>1, <2>4 DEF FollowUps, Template
    <3>2. job'["watcher"] = Idle /\ memory' = DefaultDoc
      BY <1>0, <1>13, <2>1, <2>4, <3>1 DEF Put
    <3>3. file.state = "empty" => file' = Whole(DefaultDoc)
      BY <1>13, <2>4 DEF Put
    <3>4. job'["watcher"].pc = "idle" /\ job'["watcher"].edit = Template
      BY <3>2 DEF Idle
    <3>5. file.state = "empty" => file'.state = "whole" /\ file'.doc = DefaultDoc
      BY <3>3 DEF Whole
    <3>6. running' /\ ~ event' /\ ~ missed' => file.state = "empty"
      BY <2>2, <2>3, <2>4
    <3>. QED  BY <3>2, <3>4, <3>5, <3>6
  <2>5. CASE w # "watcher"
    <3>1. LET k == job'["watcher"] IN /\ k.pc = job["watcher"].pc
                                      /\ k.doc = job["watcher"].doc /\ k.edit = job["watcher"].edit
      BY <1>0, <2>1, <2>5 DEF Jobs
    <3>. QED  BY <2>2, <2>3, <2>5, <3>1
  <2>. QED  BY <2>4, <2>5
<1>. QED  BY <1>1, <1>2, <1>3, <1>4, <1>14, <1>5, <1>6, <1>7, <1>8, <1>9, <1>10, <1>11, <1>12, <1>13
          DEF Next, DaemonStep, Write

\* The inductive invariant of config.toml and its readers and writers, for any
\* number of operations (storage.rs, models.rs, flows.rs).
THEOREM Inductive == Spec => []IInv
<1>1. IInv /\ [Next]_vars => IInv'
  BY DocStep, WatchStep DEF IInv
<1>. QED  BY InitInv, <1>1, PTL DEF Spec

\* Whoever overtakes whom, a key other than codex's is the stored access token
\* (write_oauth_tokens_to_config).
THEOREM KeysPaired == Spec => []KeyOfToken
<1>1. IInv => KeyOfToken
  BY DEF IInv, DocInv, Files, PairedDocs, Paired, KeyOfToken
<1>. QED  BY <1>1, Inductive, PTL

\* When nobody writes and no event is open, the running daemon works with what
\* the file says, whatever overlapped before, unless somebody wrote after its
\* load and before its watcher was there (AppConfig::load, into_watched).
THEOREM DaemonFollowsFile == Spec => []MemoryIsFile
<1>1. IInv => MemoryIsFile
  BY DEF IInv, WatchInv, MemoryIsFile, Resting, Writers
<1>. QED  BY <1>1, Inductive, PTL

----------------------------------------------------------------------------
(* Nothing is lost.                                                        *)

\* A writer that has read the file as it is.
Fresh(w) == job[w].pc \in {"cut", "put"} /\ job[w].base = "fresh"

\* The steps of a write: it has read something before it empties the file, only
\* the watcher writes the template, and a file it has emptied stays so until
\* someone fills it.
StageInv ==
    \A w \in Writers :
        /\ job[w].pc \in {"cut", "put"} => job[w].base # "none"
        /\ job[w].pc = "read" => job[w].edit.kind # "template"
        /\ job[w].pc = "put" /\ job[w].base = "fresh" => file.state = "empty"

\* Without an overlap and a rejected file, the file and every fresh copy of it
\* hold what each edit made of the one before.
FileInv ==
    /\ file.state # "whole" => file.doc = EmptyDoc
    /\ ~ raced => file.state # "garbled"
    /\ ~ raced /\ ~ rejected =>
           /\ file.state = "whole" => file.doc = want
           /\ file.state = "absent" => want = EmptyDoc
           /\ \A w \in Writers : Fresh(w) => job[w].doc = Wanted(job[w].edit)

WriteInv == StageInv /\ FileInv

\* Nobody writes at first, and the file is what it should be.
LEMMA InitWrites == Init => WriteInv
BY DEF Init, WriteInv, StageInv, FileInv, Fresh, Idle, Whole, NoDoc, Wanted

\* A new job that has yet to read, or none, leaves every write as it was.
LEMMA JobSet ==
    ASSUME job \in [Writers -> Jobs], WriteInv, NEW w \in Writers, NEW j, Set(w, j),
           UNCHANGED <<file, want>>, raced => raced', rejected => rejected',
           j.pc \in {"idle", "await", "read"}, j.pc = "read" => j.edit.kind # "template"
    PROVE  WriteInv'
<1>1. job' = [v \in Writers |-> IF v = w THEN j ELSE job[v]]
  BY DEF Set
<1>2. StageInv'
  BY <1>1 DEF WriteInv, StageInv
<1>3. \A v \in Writers : Fresh(v)' => Fresh(v) /\ job'[v] = job[v]
  BY <1>1 DEF Fresh
<1>4. FileInv'
  BY <1>3 DEF WriteInv, FileInv, Wanted
<1>. QED  BY <1>2, <1>4 DEF WriteInv

\* A file that does not parse is replaced by the template: absent, empty
\* while someone writes it, or without the models the daemon needs.
LEMMA LoadWrites ==
    ASSUME DocInv, WriteInv, Load(Parses), UNCHANGED <<file, want>>, job["watcher"].pc = "idle"
    PROVE  WriteInv'
<1>1. CASE Parses
  BY <1>1 DEF Load, WriteInv, StageInv, FileInv, Fresh, Wanted
<1>2. CASE ~ Parses
  <2>. DEFINE j == [Idle EXCEPT !.pc = "cut", !.doc = DefaultDoc, !.base = "fresh"]
  <2>1. job' = [v \in Writers |-> IF v = "watcher" THEN j ELSE job[v]]
    BY <1>2 DEF Load, Set, DocInv
  <2>2. /\ raced \/ file.state = "empty" => raced'
        /\ rejected \/ file.state = "whole" => rejected'
    BY <1>2, Zenon DEF Load
  <2>3. j.pc = "cut" /\ j.base = "fresh" /\ j.doc = DefaultDoc /\ j.edit = Template
    BY DEF Idle
  <2>. HIDE DEF j
  <2>4. StageInv'
    BY <2>1, <2>3 DEF WriteInv, StageInv
  <2>5. (~ raced /\ ~ rejected)' => want = EmptyDoc
    BY <2>2 DEF WriteInv, FileInv, DocInv, Files
  <2>6. want = EmptyDoc => Wanted(Template)' = DefaultDoc
    BY DEF Wanted, Template, DefaultDoc
  <2>7. \A v \in Writers : Fresh(v)' => job'[v] = j \/ (Fresh(v) /\ job'[v] = job[v])
    BY <2>1 DEF Fresh
  <2>8. ASSUME NEW v \in Writers, (~ raced /\ ~ rejected)', Fresh(v)' PROVE (job[v].doc = Wanted(job[v].edit))'
    BY <2>2, <2>3, <2>5, <2>6, <2>7, <2>8 DEF WriteInv, FileInv, Wanted
  <2>9. FileInv'
    BY <2>2, <2>8 DEF WriteInv, FileInv
  <2>. QED  BY <2>4, <2>9 DEF WriteInv
<1>. QED  BY <1>1, <1>2

\* A writer that reads the file has all of it, unless someone is writing.
LEMMA ReadWrites ==
    ASSUME DocInv, WriteInv, NEW w \in Writers, Read(w)
    PROVE  WriteInv'
<1>. DEFINE e == job[w].edit
            j == [job[w] EXCEPT !.pc = "cut", !.doc = Apply(e, file.doc),
                                !.base = IF @ = "none" THEN "fresh" ELSE @]
<1>0. job[w] \in Jobs
  BY DEF DocInv
<1>1. job' = [v \in Writers |-> IF v = w THEN j ELSE job[v]]
  BY DEF Read, Set, DocInv
<1>2. UNCHANGED <<file, want, rejected>> /\ (raced \/ file.state = "empty" => raced')
  BY Zenon DEF Read
<1>3. j.pc = "cut" /\ j.base # "none" /\ j.doc = Apply(e, file.doc) /\ j.edit = e
  BY <1>0 DEF Jobs
<1>4. e.kind # "template"
  BY DEF Read, WriteInv, StageInv
<1>. HIDE DEF j
<1>5. StageInv'
  BY <1>1, <1>2, <1>3 DEF WriteInv, StageInv
<1>6. (~ raced /\ ~ rejected)' => file.doc = want
  BY <1>2 DEF WriteInv, FileInv, DocInv, Files
<1>7. Wanted(job[w].edit)' = Apply(e, want)
  BY <1>1, <1>2, <1>3, <1>4 DEF Wanted, Apply
<1>8. \A v \in Writers : Fresh(v)' => job'[v] = j \/ (Fresh(v) /\ job'[v] = job[v])
  BY <1>1 DEF Fresh
<1>9. ASSUME NEW v \in Writers, (~ raced /\ ~ rejected)', Fresh(v)' PROVE (job[v].doc = Wanted(job[v].edit))'
  <2>1. CASE v = w
    <3>1. job'[w].doc = Apply(e, file.doc)
      BY <1>1, <1>3
    <3>. QED  BY <1>6, <1>7, <1>9, <2>1, <3>1
  <2>2. CASE v # w
    <3>1. job'[v] = job[v] /\ Fresh(v) /\ ~ raced /\ ~ rejected
      BY <1>1, <1>2, <1>9, <2>2 DEF Fresh
    <3>2. job[v].doc = Wanted(job[v].edit)
      BY <3>1 DEF WriteInv, FileInv
    <3>. QED  BY <1>2, <3>1, <3>2 DEF Wanted
  <2>. QED  BY <2>1, <2>2
<1>10. FileInv'
  BY <1>2, <1>9 DEF WriteInv, FileInv
<1>. QED  BY <1>5, <1>10 DEF WriteInv

\* What a writer takes up after an edit has yet to be read.
LEMMA FollowUpStages ==
    ASSUME NEW w \in Writers, NEW j \in FollowUps(w)
    PROVE  /\ j.pc \in {"idle", "read"}
           /\ j.pc = "read" => j.edit.kind \in {"key", "uuid"} /\ j.base = "none"
           /\ j.pc = "idle" => j = Idle
           /\ j.doc = EmptyDoc
<1>. DEFINE e == job[w].edit
            i == job[w].login
<1>1. \/ j = Idle
      \/ j = Editing(KeyEdit(e.p, <<"api", e.access>>), i, "none")
      \/ j = Editing(UuidEdit(e.p, e.access), i, "none")
  BY DEF FollowUps
<1>2. CASE j = Idle
  BY <1>2 DEF Idle
<1>3. CASE j = Editing(KeyEdit(e.p, <<"api", e.access>>), i, "none")
  BY <1>3 DEF Editing, Idle, KeyEdit
<1>4. CASE j = Editing(UuidEdit(e.p, e.access), i, "none")
  BY <1>4 DEF Editing, Idle, UuidEdit
<1>. QED  BY <1>1, <1>2, <1>3, <1>4

\* What is written back is the file with the edit, and every other copy is now
\* stale.
LEMMA PutWrites ==
    ASSUME DocInv, WriteInv, NEW w \in Writers, Put(w)
    PROVE  WriteInv'
<1>1. PICK j \in FollowUps(w) :
        job' = [v \in Writers |-> IF v = w THEN j
                                  ELSE IF job[v].base = "fresh" THEN [job[v] EXCEPT !.base = "stale"]
                                  ELSE job[v]]
  BY DEF Put
<1>0. \A v \in Writers : job[v] \in Jobs
  BY DEF DocInv
<1>2. \A v \in Writers \ {w} : /\ job'[v].pc = job[v].pc /\ job'[v].edit = job[v].edit
                               /\ job'[v].base # "fresh"
                               /\ job'[v].base = "none" => job[v].base = "none"
  BY <1>0, <1>1 DEF Jobs
<1>3. job'[w] = j
  BY <1>1
<1>4. StageInv'
  BY <1>2, <1>3, FollowUpStages DEF WriteInv, StageInv
<1>5. \A v \in Writers : ~ Fresh(v)'
  BY <1>2, <1>3, FollowUpStages DEF Fresh
<1>6. /\ raced \/ job[w].base = "stale" => raced'
      /\ rejected' = rejected /\ job[w].pc = "put"
  BY Zenon DEF Put
<1>7. ~ raced' => Fresh(w) /\ file.state = "empty"
  BY <1>0, <1>6 DEF WriteInv, StageInv, Fresh, Jobs
<1>8. file'.state # "whole" => file'.doc = EmptyDoc
  BY DEF Put, Whole, NoDoc
<1>9. ~ raced' => file' = Whole(job[w].doc)
  BY <1>7 DEF Put
<1>10. ~ raced' => want' = Wanted(job[w].edit)
  BY DEF Put
<1>11. ~ raced' /\ ~ rejected' => file'.state = "whole" /\ file'.doc = want'
  BY <1>6, <1>7, <1>9, <1>10 DEF WriteInv, FileInv, Whole
<1>12. FileInv'
  BY <1>5, <1>8, <1>9, <1>11 DEF FileInv, Whole
<1>. QED  BY <1>4, <1>12 DEF WriteInv

\* Every step keeps what the writers do in order.
LEMMA WriteStep == DocInv /\ WriteInv /\ [Next]_vars => WriteInv'
<1>. SUFFICES ASSUME DocInv, WriteInv, [Next]_vars PROVE WriteInv'
  OBVIOUS
<1>0. job \in [Writers -> Jobs]
  BY DEF DocInv
<1>1. CASE UNCHANGED vars
  BY <1>1 DEF vars, WriteInv, StageInv, FileInv, Fresh, Wanted
<1>2. CASE StartDaemon
  BY <1>2, LoadWrites DEF StartDaemon
<1>3. CASE OnFileEvent
  BY <1>3, LoadWrites DEF OnFileEvent
<1>4. CASE OnConfigChange
  BY <1>4 DEF OnConfigChange, WriteInv, StageInv, FileInv, Fresh, Wanted
<1>14. CASE Watch
  BY <1>14 DEF Watch, WriteInv, StageInv, FileInv, Fresh, Wanted
<1>5. CASE Refreshed
  <2>. DEFINE r == job["refresh"]
  <2>1. PICK t \in {tokens + 1, r.edit.refresh} : Set("refresh", Editing(TokensEdit(r.edit.p, tokens + 1, t), FALSE, r.base))
    BY <1>5 DEF Refreshed
  <2>. DEFINE j == Editing(TokensEdit(r.edit.p, tokens + 1, t), FALSE, r.base)
  <2>2. j.pc = "read" /\ j.edit.kind = "tokens"
    BY DEF Editing, Idle, TokensEdit
  <2>3. UNCHANGED <<file, want, raced, rejected>>
    BY <1>5 DEF Refreshed
  <2>4. "refresh" \in Writers
    BY DEF Writers
  <2>. QED  BY <1>0, <2>1, <2>2, <2>3, <2>4, JobSet
<1>6. CASE NotRefreshed
  BY <1>0, <1>6, JobSet DEF NotRefreshed, Idle, Writers
<1>7. CASE KillDaemon
  <2>1. job' = [v \in Writers |-> IF v \in Daemon THEN Idle ELSE job[v]]
    BY <1>7 DEF KillDaemon
  <2>2. UNCHANGED <<file, want, rejected>> /\ (raced => raced')
    BY <1>7 DEF KillDaemon
  <2>3. StageInv'
    BY <2>1, <2>2 DEF WriteInv, StageInv, Idle
  <2>4. \A v \in Writers : Fresh(v)' => Fresh(v) /\ job'[v] = job[v]
    BY <2>1 DEF Fresh, Idle
  <2>5. FileInv'
    BY <2>2, <2>4 DEF WriteInv, FileInv, Wanted
  <2>. QED  BY <2>3, <2>5 DEF WriteInv
<1>8. CASE AddPermissionToConfig
  <2>1. PICK x \in Entries : Set("loop", Editing(AllowEdit(x), FALSE, "none"))
    BY <1>8 DEF AddPermissionToConfig
  <2>2. LET j == Editing(AllowEdit(x), FALSE, "none") IN j.pc = "read" /\ j.edit.kind = "allow"
    BY DEF Editing, Idle, AllowEdit
  <2>. QED  BY <1>0, <1>8, <2>1, <2>2, JobSet DEF AddPermissionToConfig, Writers
<1>9. ASSUME NEW p \in Providers, MaybeRefreshStoredToken(p) PROVE WriteInv'
  BY <1>0, <1>9, JobSet DEF MaybeRefreshStoredToken, Idle, Writers
<1>10. ASSUME NEW p \in Providers, Login(p) PROVE WriteInv'
  <2>1. PICK t \in {NoToken, tokens + 1} : Set("cli", Editing(TokensEdit(p, tokens + 1, t), TRUE, "none"))
    BY <1>10 DEF Login
  <2>2. LET j == Editing(TokensEdit(p, tokens + 1, t), TRUE, "none") IN j.pc = "read" /\ j.edit.kind = "tokens"
    BY DEF Editing, Idle, TokensEdit
  <2>. QED  BY <1>0, <1>10, <2>1, <2>2, JobSet DEF Login, Writers
<1>11. ASSUME NEW w \in Writers, Read(w) PROVE WriteInv'
  BY <1>11, ReadWrites
<1>12. ASSUME NEW w \in Writers, Truncate(w) PROVE WriteInv'
  <2>1. job' = [v \in Writers |-> IF v = w THEN [job[w] EXCEPT !.pc = "put"] ELSE job[v]]
    BY <1>0, <1>12 DEF Truncate, Set
  <2>2. \A v \in Writers : job'[v].base = job[v].base /\ job'[v].edit = job[v].edit /\ job'[v].doc = job[v].doc
    BY <1>0, <2>1 DEF Jobs
  <2>3. job'[w].pc = "put" /\ job[w].pc = "cut" /\ \A v \in Writers \ {w} : job'[v].pc = job[v].pc
    BY <1>0, <1>12, <2>1 DEF Truncate, Jobs
  <2>4. file'.state = "empty" /\ file'.doc = EmptyDoc /\ UNCHANGED <<raced, rejected, want>>
    BY <1>12 DEF Truncate, NoDoc
  <2>5. StageInv'
    BY <2>2, <2>3, <2>4 DEF WriteInv, StageInv
  <2>6. \A v \in Writers : Fresh(v)' => Fresh(v)
    BY <2>2, <2>3 DEF Fresh
  <2>7. FileInv'
    BY <2>2, <2>4, <2>6 DEF WriteInv, FileInv, Wanted
  <2>. QED  BY <2>5, <2>7 DEF WriteInv
<1>13. ASSUME NEW w \in Writers, Put(w) PROVE WriteInv'
  BY <1>13, PutWrites
<1>. QED  BY <1>1, <1>2, <1>3, <1>4, <1>14, <1>5, <1>6, <1>7, <1>8, <1>9, <1>10, <1>11, <1>12, <1>13 DEF Next, DaemonStep, Write

\* What holds of the writers at every moment.
LEMMA Writing == Spec => [](IInv /\ WriteInv)
<1>1. Init => WriteInv
  BY InitWrites
<1>2. IInv /\ WriteInv /\ [Next]_vars => WriteInv'
  BY WriteStep DEF IInv
<1>. QED  BY <1>1, <1>2, Inductive, PTL DEF Spec

\* As long as no two accesses overlap and the template replaces nothing, the
\* file holds every edit ever written, for any number of them: each section is
\* kept by the writers of the others (load_doc, save_doc).
THEOREM EditsKept == Spec => []NothingLost
<1>1. WriteInv => NothingLost
  BY DEF WriteInv, FileInv, NothingLost
<1>. QED  BY <1>1, Writing, PTL

----------------------------------------------------------------------------
(* The stored refresh token.                                               *)

\* The token t of provider p in an edit, in a writer's hands, in the hands of
\* anyone but the command line (or in the file), and anywhere.
InEdit(e, p, t)  == e.kind = "tokens" /\ e.p = p /\ e.refresh = t
Carries(j, p, t) == j.doc.refresh[p] = t \/ InEdit(j.edit, p, t)
Others(p, t)     == file.doc.refresh[p] = t \/ \E w \in Writers \ {"cli"} : Carries(job[w], p, t)
Holds(p, t)      == Others(p, t) \/ Carries(job["cli"], p, t)

Tokens == Nat \ {NoToken}

\* A token belongs to one provider and was issued by the server; nobody has
\* the token of a login before it is written.
OwnInv ==
    \A p \in Providers, t \in Tokens :
        /\ Holds(p, t) => t <= tokens /\ \A q \in Providers : Holds(q, t) => p = q
        /\ InEdit(job["cli"].edit, p, t) => ~ Others(p, t)

\* The server has answered a refresh and the answer is not in the file yet.
Rotating == job["refresh"].edit.kind = "tokens" /\ job["refresh"].pc # "await"

Honoured(doc, by) == \A p \in Providers : doc.refresh[p] # NoToken => doc.refresh[p] \in by
LoginHonoured == \A p \in Providers, t \in Tokens : InEdit(job["cli"].edit, p, t) => t \in live

\* The server honours the tokens in the file, in every fresh copy and in a
\* login under way.
Settled ==
    /\ LoginHonoured
    /\ Honoured(file.doc, live)
    /\ \A w \in Writers : Fresh(w) => Honoured(job[w].doc, live)

\* It honours those in the document its answer makes of the file.
Turning ==
    LET r == job["refresh"] IN
    /\ LoginHonoured
    /\ r.pc = "read" => Honoured(Apply(r.edit, file.doc), live)
    /\ r.pc # "read" => Honoured(r.doc, live)

\* Only the command line and a refresh write tokens.
KindInv ==
    LET r == job["refresh"] IN
    /\ \A w \in {"loop", "watcher"} : job[w].edit.kind # "tokens"
    /\ r.edit.kind = "tokens" => r.pc # "idle" /\ r.base # "none"

\* Unless accesses overlap, or someone has written the file since the refresh
\* began, so that its own write will.
LiveInv ==
    /\ KindInv
    /\ ~ raced /\ ~ Rotating => Settled
    /\ ~ raced /\ Rotating /\ job["refresh"].base = "fresh" => Turning

\* The empty documents hold no token, and neither does an idle writer.
LEMMA NoTokens ==
    ASSUME NEW p \in Providers
    PROVE  /\ EmptyDoc.refresh[p] = NoToken /\ DefaultDoc.refresh[p] = NoToken /\ UsersDoc.refresh[p] = NoToken
           /\ \A t \in Tokens : ~ Carries(Idle, p, t)
BY DEF EmptyDoc, DefaultDoc, UsersDoc, Idle, Template, Carries, InEdit, Tokens

\* An edit leaves a document its tokens, but for the one it brings.
LEMMA ApplyTokens ==
    ASSUME NEW e \in Edits, NEW doc \in PairedDocs, NEW p \in Providers
    PROVE  Apply(e, doc).refresh[p] = IF e.kind = "template" THEN NoToken
                                      ELSE IF e.kind = "tokens" /\ e.p = p /\ e.refresh # NoToken THEN e.refresh
                                      ELSE doc.refresh[p]
<1>. doc \in Docs0
  BY DEF PairedDocs
<1>1. CASE e.kind = "tokens"
  <2>1. PICK q \in Providers, a \in Nat, r \in Nat : e = TokensEdit(q, a, r)
    BY <1>1 DEF Edits, TokensEdits, Template, AllowEdit, KeyEdit, UuidEdit
  <2>. DEFINE s == IF r = NoToken THEN doc.refresh[q] ELSE r
  <2>2. Apply(e, doc) = [doc EXCEPT !.access[q] = a, !.key[q] = <<"access", a>>, !.refresh[q] = s]
    BY <2>1 DEF Apply, TokensEdit
  <2>3. Apply(e, doc).refresh = [doc.refresh EXCEPT ![q] = s]
    BY <2>2 DEF Docs0
  <2>4. e.kind = "tokens" /\ e.p = q /\ e.refresh = r
    BY <2>1 DEF TokensEdit
  <2>5. doc.refresh \in [Providers -> Nat]
    BY DEF Docs0
  <2>. QED  BY <2>3, <2>4, <2>5
<1>2. CASE e.kind = "template"
  BY <1>2, NoTokens DEF Apply
<1>3. CASE e.kind \in {"allow", "key", "uuid"}
  BY <1>3 DEF Apply, Docs0
<1>4. e.kind \in {"tokens", "template", "allow", "key", "uuid"}
  BY DEF Edits, TokensEdits, TokensEdit, Template, AllowEdit, KeyEdit, UuidEdit
<1>. QED  BY <1>1, <1>2, <1>3, <1>4

\* A token moves from the file into a copy and from a copy into the file; only
\* the server makes a new one.
LEMMA TokensMove ==
    ASSUME DocInv, [Next]_vars, NEW p \in Providers, NEW t \in Tokens,
           ~ Refreshed, ~ \E q \in Providers : Login(q)
    PROVE  /\ \A v \in Writers : Carries(job'[v], p, t) => Carries(job[v], p, t) \/ file.doc.refresh[p] = t
           /\ InEdit(job'["cli"].edit, p, t) => InEdit(job["cli"].edit, p, t)
           /\ file'.doc.refresh[p] = t =>
                 file.doc.refresh[p] = t \/ \E w \in Writers : Put(w) /\ Carries(job[w], p, t)
           /\ tokens' = tokens
<1>. DEFINE Moves == /\ \A v \in Writers : Carries(job'[v], p, t) => Carries(job[v], p, t) \/ file.doc.refresh[p] = t
                     /\ InEdit(job'["cli"].edit, p, t) => InEdit(job["cli"].edit, p, t)
                     /\ file'.doc.refresh[p] = t =>
                           file.doc.refresh[p] = t \/ \E w \in Writers : Put(w) /\ Carries(job[w], p, t)
                     /\ tokens' = tokens
<1>. SUFFICES Moves
  OBVIOUS
<1>0. job \in [Writers -> Jobs] /\ \A v \in Writers : job[v] \in Jobs
  BY DEF DocInv
<1>n. t # NoToken
  BY DEF Tokens
<1>s. ASSUME NEW w \in Writers, NEW j, Set(w, j), file'.doc = file.doc \/ file'.doc = EmptyDoc, tokens' = tokens,
             Carries(j, p, t) => Carries(job[w], p, t) \/ file.doc.refresh[p] = t,
             w = "cli" => j.edit = job[w].edit
      PROVE  Moves
  <2>1. job' = [v \in Writers |-> IF v = w THEN j ELSE job[v]]
    BY <1>0, <1>s DEF Set
  <2>2. "cli" \in Writers
    BY DEF Writers
  <2>3. job'["cli"].edit = job["cli"].edit
    BY <1>s, <2>1, <2>2
  <2>4. \A v \in Writers : Carries(job'[v], p, t) => Carries(job[v], p, t) \/ file.doc.refresh[p] = t
    BY <1>s, <2>1
  <2>5. file'.doc.refresh[p] = t => file.doc.refresh[p] = t
    BY <1>s, <1>n, NoTokens
  <2>. QED  BY <1>s, <2>3, <2>4, <2>5
<1>1. CASE UNCHANGED vars
  BY <1>1 DEF vars
<1>l. ASSUME Load(Parses), file' = file, tokens' = tokens PROVE Moves
  <2>1. CASE job' = job
    BY <1>l, <2>1
  <2>. DEFINE j == [Idle EXCEPT !.pc = "cut", !.doc = DefaultDoc, !.base = "fresh"]
  <2>2. CASE Set("watcher", j)
    <3>1. ~ Carries(j, p, t)
      BY <1>n, NoTokens DEF Idle, Template, Carries, InEdit
    <3>. HIDE DEF j
    <3>. QED  BY <1>l, <1>s, <2>2, <3>1 DEF Writers
  <2>. QED  BY <1>l, <2>1, <2>2 DEF Load
<1>2. CASE StartDaemon
  BY <1>2, <1>l DEF StartDaemon
<1>3. CASE OnFileEvent
  BY <1>3, <1>l DEF OnFileEvent
<1>4. CASE OnConfigChange
  BY <1>4 DEF OnConfigChange
<1>14. CASE Watch
  BY <1>14 DEF Watch
<1>6. CASE NotRefreshed
  BY <1>6, <1>s, NoTokens DEF NotRefreshed, Writers
<1>7. CASE KillDaemon
  <2>1. job' = [v \in Writers |-> IF v \in Daemon THEN Idle ELSE job[v]]
    BY <1>7 DEF KillDaemon
  <2>2. job'["cli"] = job["cli"]
    BY <2>1 DEF Daemon, Writers
  <2>. QED  BY <1>7, <2>1, <2>2, NoTokens DEF KillDaemon
<1>8. CASE AddPermissionToConfig
  <2>1. PICK x \in Entries : Set("loop", Editing(AllowEdit(x), FALSE, "none"))
    BY <1>8 DEF AddPermissionToConfig
  <2>. DEFINE j == Editing(AllowEdit(x), FALSE, "none")
  <2>2. ~ Carries(j, p, t)
    BY <1>n, NoTokens DEF Editing, Idle, AllowEdit, Carries, InEdit
  <2>. HIDE DEF j
  <2>. QED  BY <1>8, <1>s, <2>1, <2>2 DEF AddPermissionToConfig, Writers, j
<1>9. ASSUME NEW q \in Providers, MaybeRefreshStoredToken(q) PROVE Moves
  <2>. DEFINE j == [Idle EXCEPT !.pc = "await", !.edit = TokensEdit(q, NoToken, file.doc.refresh[q]), !.base = "fresh"]
  <2>1. Carries(j, p, t) => file.doc.refresh[p] = t
    BY <1>n, NoTokens DEF Idle, TokensEdit, Carries, InEdit
  <2>2. Set("refresh", j)
    BY <1>9 DEF MaybeRefreshStoredToken
  <2>. HIDE DEF j
  <2>. QED  BY <1>9, <1>s, <2>1, <2>2 DEF MaybeRefreshStoredToken, Writers
<1>11. ASSUME NEW w \in Writers, Read(w) PROVE Moves
  <2>. DEFINE e == job[w].edit
              j == [job[w] EXCEPT !.pc = "cut", !.doc = Apply(e, file.doc),
                                  !.base = IF @ = "none" THEN "fresh" ELSE @]
  <2>1. Set(w, j) /\ tokens' = tokens /\ file' = file
    BY <1>11 DEF Read
  <2>2. j.doc = Apply(e, file.doc) /\ j.edit = e
    BY <1>0 DEF Jobs
  <2>3. e \in Edits /\ file.doc \in PairedDocs
    BY <1>0 DEF Jobs, DocInv, Files
  <2>4. j.doc.refresh[p] = t => file.doc.refresh[p] = t \/ InEdit(e, p, t)
    BY <1>n, <2>2, <2>3, ApplyTokens DEF InEdit
  <2>5. Carries(j, p, t) => Carries(job[w], p, t) \/ file.doc.refresh[p] = t
    BY <2>2, <2>4 DEF Carries
  <2>. HIDE DEF j
  <2>. QED  BY <1>s, <2>1, <2>2, <2>5
<1>12. ASSUME NEW w \in Writers, Truncate(w) PROVE Moves
  <2>. DEFINE j == [job[w] EXCEPT !.pc = "put"]
  <2>1. Set(w, j) /\ tokens' = tokens /\ file'.doc = EmptyDoc
    BY <1>12 DEF Truncate, NoDoc
  <2>2. j.doc = job[w].doc /\ j.edit = job[w].edit
    BY <1>0 DEF Jobs
  <2>. HIDE DEF j
  <2>. QED  BY <1>s, <2>1, <2>2 DEF Carries
<1>13. ASSUME NEW w \in Writers, Put(w) PROVE Moves
  <2>1. PICK j \in FollowUps(w) :
          job' = [v \in Writers |-> IF v = w THEN j
                                    ELSE IF job[v].base = "fresh" THEN [job[v] EXCEPT !.base = "stale"]
                                    ELSE job[v]]
    BY <1>13 DEF Put
  <2>2. ~ Carries(j, p, t)
    BY <1>n, FollowUpStages, NoTokens DEF Carries, InEdit
  <2>3. \A v \in Writers \ {w} : job'[v].doc = job[v].doc /\ job'[v].edit = job[v].edit
    BY <1>0, <2>1 DEF Jobs
  <2>4. job'[w] = j
    BY <2>1
  <2>5. file'.doc.refresh[p] = t => Carries(job[w], p, t)
    <3>1. file'.doc = job[w].doc \/ file'.doc = EmptyDoc
      BY <1>13 DEF Put, Whole, NoDoc
    <3>. QED  BY <1>n, <3>1, NoTokens DEF Carries
  <2>6. tokens' = tokens
    BY <1>13 DEF Put
  <2>7. \A v \in Writers : Carries(job'[v], p, t) => Carries(job[v], p, t)
    BY <2>2, <2>3, <2>4 DEF Carries
  <2>8. InEdit(job'["cli"].edit, p, t) => InEdit(job["cli"].edit, p, t)
    BY <2>2, <2>3, <2>4 DEF Carries, Writers
  <2>. QED  BY <1>13, <2>5, <2>6, <2>7, <2>8
<1>. QED  BY <1>1, <1>2, <1>3, <1>4, <1>14, <1>6, <1>7, <1>8, <1>9, <1>11, <1>12, <1>13 DEF Next, DaemonStep, Write

\* Nothing is issued at first.
LEMMA InitTokens == Init => OwnInv /\ LiveInv
<1>. SUFFICES ASSUME Init PROVE OwnInv /\ LiveInv
  OBVIOUS
<1>1. \A p \in Providers : file.doc.refresh[p] = NoToken
  BY NoTokens DEF Init, Whole, NoDoc
<1>2. \A w \in Writers : job[w] = Idle
  BY DEF Init
<1>3. "cli" \in Writers /\ "refresh" \in Writers /\ "loop" \in Writers /\ "watcher" \in Writers
  BY DEF Writers
<1>4. \A p \in Providers, t \in Tokens : ~ Holds(p, t) /\ ~ InEdit(job["cli"].edit, p, t)
  BY <1>1, <1>2, <1>3, NoTokens DEF Holds, Others, Carries, Tokens
<1>5. OwnInv
  BY <1>4 DEF OwnInv
<1>6. \A w \in Writers : job[w].edit.kind = "template" /\ job[w].pc = "idle"
  BY <1>2 DEF Idle, Template
<1>7. LiveInv
  BY <1>1, <1>3, <1>4, <1>6 DEF LiveInv, KindInv, Settled, LoginHonoured, Honoured, Fresh, Rotating
<1>. QED  BY <1>5, <1>7

\* A new token is one more than any other; it goes to the provider it was
\* issued for.
LEMMA TokensIssued ==
    ASSUME DocInv, NEW t \in Tokens, NEW p \in Providers
    PROVE  /\ Refreshed =>
                 /\ tokens' = tokens + 1 /\ job'["cli"] = job["cli"]
                 /\ Others(p, t)' => Others(p, t) \/ (p = job["refresh"].edit.p /\ t = tokens + 1)
           /\ \A q \in Providers : Login(q) =>
                 /\ tokens' = tokens + 1 /\ (Others(p, t)' => Others(p, t))
                 /\ Carries(job'["cli"], p, t) => p = q /\ t = tokens + 1
<1>0. job \in [Writers -> Jobs] /\ "cli" \in Writers /\ "refresh" \in Writers
  BY DEF DocInv, Writers
<1>n. t # NoToken
  BY DEF Tokens
<1>1. ASSUME Refreshed
      PROVE  /\ tokens' = tokens + 1 /\ job'["cli"] = job["cli"]
             /\ Others(p, t)' => Others(p, t) \/ (p = job["refresh"].edit.p /\ t = tokens + 1)
  <2>. DEFINE r == job["refresh"]
  <2>1. PICK n \in {tokens + 1, r.edit.refresh} :
          Set("refresh", Editing(TokensEdit(r.edit.p, tokens + 1, n), FALSE, r.base))
    BY <1>1 DEF Refreshed
  <2>. DEFINE j == Editing(TokensEdit(r.edit.p, tokens + 1, n), FALSE, r.base)
  <2>2. Carries(j, p, t) => p = r.edit.p /\ (t = tokens + 1 \/ t = r.edit.refresh)
    BY <1>n, NoTokens DEF Editing, Idle, TokensEdit, Carries, InEdit
  <2>3. job' = [v \in Writers |-> IF v = "refresh" THEN j ELSE job[v]]
    BY <1>0, <2>1 DEF Set
  <2>. HIDE DEF j
  <2>4. r.edit.kind = "tokens"
    BY <1>0, <1>1 DEF Refreshed, Jobs, TokensEdits, TokensEdit
  <2>5. Carries(j, p, t) => Carries(r, p, t) \/ (p = r.edit.p /\ t = tokens + 1)
    BY <2>2, <2>4 DEF Carries, InEdit
  <2>6. file' = file /\ tokens' = tokens + 1
    BY <1>1 DEF Refreshed
  <2>7. \A w \in Writers \ {"cli"} : Carries(job'[w], p, t) => Carries(job[w], p, t) \/ (p = r.edit.p /\ t = tokens + 1)
    BY <1>0, <2>3, <2>5
  <2>8. Others(p, t)' => Others(p, t) \/ (p = r.edit.p /\ t = tokens + 1)
    <3>1. Others(p, t)' <=> file'.doc.refresh[p] = t \/ \E w \in Writers \ {"cli"} : Carries(job'[w], p, t)
      BY DEF Others, Carries
    <3>. QED  BY <1>0, <2>6, <2>7, <3>1 DEF Others
  <2>. QED  BY <1>0, <2>3, <2>6, <2>8
<1>2. ASSUME NEW q \in Providers, Login(q)
      PROVE  /\ tokens' = tokens + 1 /\ (Others(p, t)' => Others(p, t))
             /\ Carries(job'["cli"], p, t) => p = q /\ t = tokens + 1
  <2>1. PICK n \in {NoToken, tokens + 1} : Set("cli", Editing(TokensEdit(q, tokens + 1, n), TRUE, "none"))
    BY <1>2 DEF Login
  <2>. DEFINE j == Editing(TokensEdit(q, tokens + 1, n), TRUE, "none")
  <2>2. Carries(j, p, t) => p = q /\ t = tokens + 1
    BY <1>n, NoTokens DEF Editing, Idle, TokensEdit, Carries, InEdit
  <2>3. job' = [v \in Writers |-> IF v = "cli" THEN j ELSE job[v]]
    BY <1>0, <2>1 DEF Set
  <2>. HIDE DEF j
  <2>4. file' = file /\ tokens' = tokens + 1
    BY <1>2 DEF Login
  <2>5. \A w \in Writers \ {"cli"} : job'[w] = job[w]
    BY <2>3
  <2>6. Others(p, t)' => Others(p, t)
    BY <2>4, <2>5 DEF Others, Carries
  <2>. QED  BY <1>0, <2>2, <2>3, <2>4, <2>6
<1>. QED  BY <1>1, <1>2

\* No step gives a token to another provider or a login's to another writer.
LEMMA OwnStep == DocInv /\ OwnInv /\ [Next]_vars => OwnInv'
<1>. SUFFICES ASSUME DocInv, OwnInv, [Next]_vars PROVE OwnInv'
  OBVIOUS
<1>0. tokens \in Nat /\ "cli" \in Writers /\ \A t \in Tokens : t \in Nat
  BY DEF DocInv, Writers, Tokens
<1>a. \A p \in Providers, t \in Tokens : Holds(p, t)' <=> Others(p, t)' \/ Carries(job'["cli"], p, t)
  BY DEF Holds, Carries
<1>i. \A p \in Providers, t \in Tokens : /\ InEdit(job["cli"].edit, p, t) => Carries(job["cli"], p, t)
                                         /\ InEdit(job'["cli"].edit, p, t) => Carries(job'["cli"], p, t)
  BY DEF Carries
<1>h. \A p \in Providers, t \in Tokens : Holds(p, t) <=> Others(p, t) \/ Carries(job["cli"], p, t)
  BY DEF Holds
<1>o. \A p \in Providers, t \in Tokens : Holds(p, t) => t # tokens + 1
  BY <1>0 DEF OwnInv
<1>n. ASSUME tokens' = tokens + 1, NEW q,
             \A p \in Providers, t \in Tokens : Holds(p, t)' => Holds(p, t) \/ (p = q /\ t = tokens + 1)
      PROVE  \A p \in Providers, t \in Tokens :
                Holds(p, t)' => t <= tokens' /\ \A o \in Providers : Holds(o, t)' => p = o
  <2>. SUFFICES ASSUME NEW p \in Providers, NEW t \in Tokens, Holds(p, t)'
                PROVE  t <= tokens' /\ \A o \in Providers : Holds(o, t)' => p = o
    OBVIOUS
  <2>1. CASE t = tokens + 1
    <3>1. \A o \in Providers : ~ Holds(o, t)
      BY <1>0, <2>1 DEF OwnInv
    <3>. QED  BY <1>0, <1>n, <2>1, <3>1
  <2>2. CASE t # tokens + 1
    BY <1>0, <1>n, <2>2 DEF OwnInv
  <2>. QED  BY <2>1, <2>2
<1>1. CASE Refreshed
  <2>. DEFINE q == job["refresh"].edit.p
  <2>1. \A p \in Providers, t \in Tokens : Others(p, t)' => Others(p, t) \/ (p = q /\ t = tokens + 1)
    BY <1>1, TokensIssued
  <2>2. tokens' = tokens + 1 /\ job'["cli"] = job["cli"]
    BY <1>1 DEF Refreshed, Set, DocInv, Writers
  <2>3. \A p \in Providers, t \in Tokens : Holds(p, t)' => Holds(p, t) \/ (p = q /\ t = tokens + 1)
    BY <1>a, <2>1, <2>2 DEF Holds
  <2>. HIDE DEF q
  <2>4. \A p \in Providers, t \in Tokens :
          Holds(p, t)' => t <= tokens' /\ \A o \in Providers : Holds(o, t)' => p = o
    BY <1>n, <2>2, <2>3
  <2>5. \A p \in Providers, t \in Tokens : InEdit(job["cli"].edit, p, t) => ~ Others(p, t) /\ t # tokens + 1
    <3>. SUFFICES ASSUME NEW p \in Providers, NEW t \in Tokens, InEdit(job["cli"].edit, p, t)
                  PROVE  ~ Others(p, t) /\ t # tokens + 1
      OBVIOUS
    <3>1. Holds(p, t)
      BY <1>h, <1>i
    <3>. QED  BY <1>o, <3>1 DEF OwnInv
  <2>6. \A p \in Providers, t \in Tokens : InEdit(job'["cli"].edit, p, t) => ~ Others(p, t)'
    BY <2>1, <2>2, <2>5
  <2>. QED  BY <2>4, <2>6 DEF OwnInv
<1>2. ASSUME NEW q \in Providers, Login(q) PROVE OwnInv'
  <2>1. \A p \in Providers, t \in Tokens : /\ Others(p, t)' => Others(p, t)
                                           /\ Carries(job'["cli"], p, t) => p = q /\ t = tokens + 1
    BY <1>2, TokensIssued
  <2>2. tokens' = tokens + 1
    BY <1>2 DEF Login
  <2>3. \A p \in Providers, t \in Tokens : Holds(p, t)' => Holds(p, t) \/ (p = q /\ t = tokens + 1)
    BY <1>a, <1>h, <2>1
  <2>4. \A p \in Providers, t \in Tokens :
          Holds(p, t)' => t <= tokens' /\ \A o \in Providers : Holds(o, t)' => p = o
    BY <1>n, <2>2, <2>3
  <2>5. \A p \in Providers, t \in Tokens : Others(p, t) => t # tokens + 1
    BY <1>h, <1>o
  <2>6. \A p \in Providers, t \in Tokens : InEdit(job'["cli"].edit, p, t) => ~ Others(p, t)'
    <3>. SUFFICES ASSUME NEW p \in Providers, NEW t \in Tokens, InEdit(job'["cli"].edit, p, t), Others(p, t)'
                  PROVE  FALSE
      OBVIOUS
    <3>1. Others(p, t) /\ Carries(job'["cli"], p, t)
      BY <1>i, <2>1
    <3>. QED  BY <2>1, <2>5, <3>1
  <2>. QED  BY <2>4, <2>6 DEF OwnInv
<1>3. CASE ~ Refreshed /\ ~ \E q \in Providers : Login(q)
  <2>1. \A p \in Providers, t \in Tokens :
           /\ \A v \in Writers : Carries(job'[v], p, t) => Carries(job[v], p, t) \/ file.doc.refresh[p] = t
           /\ InEdit(job'["cli"].edit, p, t) => InEdit(job["cli"].edit, p, t)
           /\ file'.doc.refresh[p] = t =>
                 file.doc.refresh[p] = t \/ \E w \in Writers : Put(w) /\ Carries(job[w], p, t)
           /\ tokens' = tokens
    BY <1>3, TokensMove
  <2>2. \A p \in Providers, t \in Tokens :
           Others(p, t)' <=> file'.doc.refresh[p] = t \/ \E w \in Writers \ {"cli"} : Carries(job'[w], p, t)
    BY DEF Others, Carries
  <2>3. \A p \in Providers, t \in Tokens : Others(p, t)' => Others(p, t) \/ (Put("cli") /\ Carries(job["cli"], p, t))
    BY <2>1, <2>2 DEF Others
  <2>4. \A p \in Providers, t \in Tokens : Holds(p, t)' => Holds(p, t)
    BY <1>0, <1>a, <2>1, <2>3 DEF Holds, Others
  <2>5. Put("cli") => \A p \in Providers, t \in Tokens : ~ InEdit(job'["cli"].edit, p, t)
    <3>1. Put("cli") => job'["cli"] \in FollowUps("cli")
      BY <1>0 DEF Put
    <3>. QED  BY <1>0, <3>1, FollowUpStages, NoTokens DEF Carries, InEdit
  <2>6. \A p \in Providers, t \in Tokens : InEdit(job'["cli"].edit, p, t) => ~ Others(p, t)'
    BY <2>1, <2>3, <2>5 DEF OwnInv
  <2>. QED  BY <2>1, <2>4, <2>6 DEF OwnInv
<1>. QED  BY <1>1, <1>2, <1>3

\* No step gives the loop or the watcher a token, or leaves a refresh idle
\* with one.
LEMMA KindStep == DocInv /\ KindInv /\ [Next]_vars => KindInv'
<1>. SUFFICES ASSUME DocInv, KindInv, [Next]_vars PROVE KindInv'
  OBVIOUS
<1>0. job \in [Writers -> Jobs] /\ {"loop", "watcher", "refresh", "cli"} = Writers
  BY DEF DocInv, Writers
<1>s. ASSUME NEW w \in Writers, NEW j, Set(w, j),
             j.edit.kind = "tokens" => /\ w \notin {"loop", "watcher"}
                                       /\ w = "refresh" => j.pc # "idle" /\ j.base # "none"
      PROVE  KindInv'
  <2>1. job' = [v \in Writers |-> IF v = w THEN j ELSE job[v]]
    BY <1>0, <1>s DEF Set
  <2>. QED  BY <1>0, <1>s, <2>1 DEF KindInv
<1>1. CASE UNCHANGED vars
  BY <1>1 DEF vars, KindInv
<1>l. ASSUME Load(Parses) PROVE KindInv'
  <2>1. CASE job' = job
    BY <2>1 DEF KindInv
  <2>2. CASE Set("watcher", [Idle EXCEPT !.pc = "cut", !.doc = DefaultDoc, !.base = "fresh"])
    BY <1>0, <1>s, <2>2 DEF Idle, Template
  <2>. QED  BY <1>l, <2>1, <2>2 DEF Load
<1>2. CASE StartDaemon
  BY <1>2, <1>l DEF StartDaemon
<1>3. CASE OnFileEvent
  BY <1>3, <1>l DEF OnFileEvent
<1>4. CASE OnConfigChange
  BY <1>4 DEF OnConfigChange, KindInv
<1>14. CASE Watch
  BY <1>14 DEF Watch, KindInv
<1>5. CASE Refreshed
  <2>. DEFINE r == job["refresh"]
  <2>1. PICK n : Set("refresh", Editing(TokensEdit(r.edit.p, tokens + 1, n), FALSE, r.base))
    BY <1>5 DEF Refreshed
  <2>. DEFINE j == Editing(TokensEdit(r.edit.p, tokens + 1, n), FALSE, r.base)
  <2>2. r.edit.kind = "tokens"
    BY <1>0, <1>5 DEF Refreshed, Jobs, TokensEdits, TokensEdit
  <2>3. j.pc = "read" /\ j.base = r.base
    BY DEF Editing, Idle
  <2>. HIDE DEF j
  <2>. QED  BY <1>0, <1>s, <2>1, <2>2, <2>3 DEF KindInv, j
<1>6. CASE NotRefreshed
  BY <1>0, <1>6, <1>s DEF NotRefreshed, Idle, Template
<1>7. CASE KillDaemon
  BY <1>0, <1>7 DEF KillDaemon, KindInv, Daemon, Idle, Template
<1>8. CASE AddPermissionToConfig
  <2>1. PICK x \in Entries : Set("loop", Editing(AllowEdit(x), FALSE, "none"))
    BY <1>8 DEF AddPermissionToConfig
  <2>2. Editing(AllowEdit(x), FALSE, "none").edit.kind = "allow"
    BY DEF Editing, Idle, AllowEdit
  <2>. QED  BY <1>0, <1>s, <2>1, <2>2
<1>9. ASSUME NEW p \in Providers, MaybeRefreshStoredToken(p) PROVE KindInv'
  <2>. DEFINE j == [Idle EXCEPT !.pc = "await", !.edit = TokensEdit(p, NoToken, file.doc.refresh[p]), !.base = "fresh"]
  <2>1. Set("refresh", j) /\ j.pc = "await" /\ j.base = "fresh"
    BY <1>9 DEF MaybeRefreshStoredToken, Idle
  <2>. HIDE DEF j
  <2>. QED  BY <1>0, <1>s, <2>1
<1>10. ASSUME NEW p \in Providers, Login(p) PROVE KindInv'
  <2>1. PICK n : Set("cli", Editing(TokensEdit(p, tokens + 1, n), TRUE, "none"))
    BY <1>10 DEF Login
  <2>. QED  BY <1>0, <1>s, <2>1
<1>11. ASSUME NEW w \in Writers, Read(w) PROVE KindInv'
  <2>. DEFINE j == [job[w] EXCEPT !.pc = "cut", !.doc = Apply(job[w].edit, file.doc),
                                  !.base = IF @ = "none" THEN "fresh" ELSE @]
  <2>1. Set(w, j)
    BY <1>11 DEF Read
  <2>2. j.edit = job[w].edit /\ j.pc = "cut" /\ j.base # "none"
    BY <1>0 DEF Jobs
  <2>. HIDE DEF j
  <2>. QED  BY <1>0, <1>s, <2>1, <2>2 DEF KindInv
<1>12. ASSUME NEW w \in Writers, Truncate(w) PROVE KindInv'
  <2>. DEFINE j == [job[w] EXCEPT !.pc = "put"]
  <2>1. Set(w, j)
    BY <1>12 DEF Truncate
  <2>2. j.edit = job[w].edit /\ j.pc = "put" /\ j.base = job[w].base
    BY <1>0 DEF Jobs
  <2>. HIDE DEF j
  <2>. QED  BY <1>0, <1>s, <2>1, <2>2 DEF KindInv
<1>13. ASSUME NEW w \in Writers, Put(w) PROVE KindInv'
  <2>1. PICK j \in FollowUps(w) :
          job' = [v \in Writers |-> IF v = w THEN j
                                    ELSE IF job[v].base = "fresh" THEN [job[v] EXCEPT !.base = "stale"]
                                    ELSE job[v]]
    BY <1>13 DEF Put
  <2>2. j.edit.kind # "tokens"
    BY FollowUpStages DEF Idle, Template
  <2>3. \A v \in Writers \ {w} : /\ job'[v].pc = job[v].pc /\ job'[v].edit = job[v].edit
                             /\ job'[v].base = "none" => job[v].base = "none"
    BY <1>0, <2>1 DEF Jobs
  <2>. QED  BY <1>0, <2>1, <2>2, <2>3 DEF KindInv
<1>. QED  BY <1>1, <1>2, <1>3, <1>4, <1>14, <1>5, <1>6, <1>7, <1>8, <1>9, <1>10, <1>11, <1>12, <1>13 DEF Next, DaemonStep, Write

\* What the server honours among the tokens of a document goes for the empty one
\* in its place, with or without an edit, and for a server that honours more.
LEMMA HonouredKept ==
    ASSUME NEW by, NEW more, by \subseteq more
    PROVE  /\ Honoured(EmptyDoc, more) /\ Honoured(DefaultDoc, more)
           /\ \A doc : Honoured(doc, by) => Honoured(doc, more)
           /\ \A e \in Edits, doc \in PairedDocs :
                 Honoured(Apply(e, doc), by) => Honoured(Apply(e, EmptyDoc), more)
<1>1. Honoured(EmptyDoc, more) /\ Honoured(DefaultDoc, more)
  BY NoTokens DEF Honoured
<1>2. \A doc : Honoured(doc, by) => Honoured(doc, more)
  BY DEF Honoured
<1>3. ASSUME NEW e \in Edits, NEW doc \in PairedDocs, Honoured(Apply(e, doc), by), NEW p \in Providers,
             Apply(e, EmptyDoc).refresh[p] # NoToken
      PROVE  Apply(e, EmptyDoc).refresh[p] \in more
  <2>1. Apply(e, EmptyDoc).refresh[p] = Apply(e, doc).refresh[p]
    BY <1>3, ApplyTokens, EmptyDocs, NoTokens
  <2>. QED  BY <1>3, <2>1 DEF Honoured
<1>4. \A e \in Edits, doc \in PairedDocs : Honoured(Apply(e, doc), by) => Honoured(Apply(e, EmptyDoc), more)
  BY <1>3 DEF Honoured
<1>. QED  BY <1>1, <1>2, <1>4

\* A writer other than a refresh with an answer takes its next step, other than
\* filling the file.
LEMMA LiveSet ==
    ASSUME DocInv, LiveInv, KindInv', NEW w \in Writers, NEW j, Set(w, j),
           file'.doc = file.doc \/ file'.doc = EmptyDoc, live \subseteq live', raced => raced',
           w = "refresh" => ~ Rotating /\ (j.edit.kind = "tokens" => j.pc = "await"),
           w = "cli" => \A p \in Providers, t \in Tokens :
                           InEdit(j.edit, p, t) => InEdit(job["cli"].edit, p, t) \/ t \in live',
           ~ raced' /\ ~ Rotating /\ j.pc \in {"cut", "put"} /\ j.base = "fresh" => Honoured(j.doc, live)
    PROVE  LiveInv'
<1>0. "refresh" \in Writers /\ "cli" \in Writers
  BY DEF Writers
<1>1. job' = [v \in Writers |-> IF v = w THEN j ELSE job[v]]
  BY DEF Set, DocInv
<1>2. job["refresh"].edit \in Edits /\ file.doc \in PairedDocs
  BY <1>0 DEF DocInv, Jobs, Files
<1>3. LoginHonoured => LoginHonoured'
  BY <1>0, <1>1 DEF LoginHonoured
<1>4. \A doc : Honoured(doc, live) => Honoured(doc, live')
  BY HonouredKept
<1>5. Rotating' <=> Rotating
  BY <1>0, <1>1 DEF Rotating
<1>6. ASSUME ~ raced', ~ Rotating' PROVE Settled'
  <2>1. Settled
    BY <1>5, <1>6 DEF LiveInv
  <2>2. Honoured(file'.doc, live')
    BY <1>4, <2>1, HonouredKept DEF Settled
  <2>3. ASSUME NEW v \in Writers, Fresh(v)' PROVE Honoured(job'[v].doc, live')
    <3>1. Honoured(job'[v].doc, live)
      BY <1>1, <1>5, <1>6, <2>1, <2>3 DEF Settled, Fresh
    <3>. QED  BY <1>4, <3>1
  <2>. QED  BY <1>3, <2>1, <2>2, <2>3 DEF Settled
<1>7. ASSUME ~ raced', Rotating', job'["refresh"].base = "fresh" PROVE Turning'
  <2>1. job'["refresh"] = job["refresh"]
    BY <1>0, <1>1, <1>5, <1>7
  <2>2. Turning
    BY <1>5, <1>7, <2>1 DEF LiveInv
  <2>3. job["refresh"].pc = "read" => Honoured(Apply(job["refresh"].edit, file'.doc), live')
    BY <1>2, <1>4, <2>2, HonouredKept DEF Turning
  <2>4. job["refresh"].pc # "read" => Honoured(job["refresh"].doc, live')
    BY <1>4, <2>2 DEF Turning
  <2>. QED  BY <1>3, <2>1, <2>2, <2>3, <2>4 DEF Turning
<1>. QED  BY <1>6, <1>7 DEF LiveInv

\* A document with an edit of its reader's is honoured when both are.
LEMMA ApplyHonoured ==
    ASSUME DocInv, KindInv, Settled, NEW w \in Writers, job[w].pc = "read", ~ Rotating
    PROVE  Honoured(Apply(job[w].edit, file.doc), live)
<1>. DEFINE e == job[w].edit
<1>1. e \in Edits /\ file.doc \in PairedDocs
  BY DEF DocInv, Jobs, Files
<1>. SUFFICES ASSUME NEW p \in Providers, Apply(e, file.doc).refresh[p] # NoToken
              PROVE  Apply(e, file.doc).refresh[p] \in live
  BY DEF Honoured
<1>2. CASE e.kind = "tokens" /\ e.p = p /\ e.refresh # NoToken
  <2>1. w = "cli"
    BY <1>2 DEF KindInv, Rotating, Writers
  <2>2. e.refresh \in Tokens
    BY <1>1, <1>2 DEF Edits, TokensEdits, TokensEdit, Template, AllowEdit, KeyEdit, UuidEdit, Tokens
  <2>3. InEdit(job["cli"].edit, p, e.refresh)
    BY <1>2, <2>1 DEF InEdit
  <2>4. e.refresh \in live
    BY <2>2, <2>3 DEF Settled, LoginHonoured
  <2>. QED  BY <1>1, <1>2, <2>4, ApplyTokens
<1>3. CASE Apply(e, file.doc).refresh[p] = file.doc.refresh[p]
  BY <1>3 DEF Settled, Honoured
<1>. QED  BY <1>1, <1>2, <1>3, ApplyTokens

\* The server's answer: a token that replaces the old one replaces it in the
\* document to be written, and nobody else has the old one for another use.
LEMMA LiveRefreshed ==
    ASSUME DocInv, OwnInv, LiveInv, KindInv', Refreshed
    PROVE  LiveInv'
<1>. DEFINE r == job["refresh"]
            old == r.edit.refresh
            t == tokens + 1
<1>0. job \in [Writers -> Jobs] /\ "refresh" \in Writers /\ "cli" \in Writers /\ tokens \in Nat
  BY DEF DocInv, Writers
<1>1. PICK rotates \in BOOLEAN :
        /\ live' = IF rotates THEN (live \ {old}) \cup {t} ELSE live
        /\ Set("refresh", Editing(TokensEdit(r.edit.p, t, IF rotates THEN t ELSE old), FALSE, r.base))
  BY DEF Refreshed
<1>. DEFINE e == TokensEdit(r.edit.p, t, IF rotates THEN t ELSE old)
            j == Editing(e, FALSE, r.base)
<1>2. job' = [job EXCEPT !["refresh"] = j]
  BY <1>1 DEF Set
<1>3. j.pc = "read" /\ j.base = r.base /\ j.edit = e
  BY DEF Editing, Idle
<1>4. e.kind = "tokens" /\ e.p = r.edit.p /\ e.refresh = IF rotates THEN t ELSE old
  BY DEF TokensEdit
<1>5. r.edit \in TokensEdits /\ r.pc = "await" /\ file' = file /\ raced' = raced
  BY <1>0 DEF Refreshed, Jobs
<1>6. r.edit.kind = "tokens" /\ r.edit.p \in Providers /\ old \in Nat
  BY <1>5 DEF TokensEdits, TokensEdit
<1>7. e \in Edits /\ file.doc \in PairedDocs
  <2>1. t \in Nat /\ (IF rotates THEN t ELSE old) \in Nat
    BY <1>0, <1>6
  <2>2. \A p \in Providers, a \in Nat, n \in Nat : TokensEdit(p, a, n) \in Edits
    BY DEF Edits, TokensEdits
  <2>3. e \in Edits
    BY <1>6, <2>1, <2>2
  <2>. QED  BY <2>3 DEF DocInv, Files
<1>8. Rotating' /\ job'["refresh"] = j /\ job'["cli"] = job["cli"]
  BY <1>0, <1>2, <1>3, <1>4 DEF Rotating
<1>9. ~ Rotating
  BY <1>5 DEF Rotating
<1>. HIDE DEF e, j
<1>10. ASSUME NEW p \in Providers, NEW n \in live, n # old \/ ~ rotates PROVE n \in live'
  BY <1>1, <1>10
<1>11. ASSUME ~ raced, r.base = "fresh" PROVE Turning'
  <2>1. Settled
    BY <1>9, <1>11 DEF LiveInv
  <2>2. ASSUME NEW p \in Providers, NEW n \in Tokens, InEdit(job["cli"].edit, p, n) PROVE n \in live'
    <3>1. n \in live
      BY <2>1, <2>2 DEF Settled, LoginHonoured
    <3>2. n # old
      <4>. SUFFICES ASSUME n = old PROVE FALSE
        OBVIOUS
      <4>1. Carries(r, r.edit.p, n)
        BY <1>6 DEF Carries, InEdit
      <4>2. Others(r.edit.p, n)
        BY <1>0, <4>1 DEF Others
      <4>3. Holds(p, n) /\ Holds(r.edit.p, n)
        BY <2>2, <4>2 DEF Holds, Carries
      <4>4. p = r.edit.p
        BY <1>6, <4>3 DEF OwnInv
      <4>. QED  BY <2>2, <4>2, <4>4 DEF OwnInv
    <3>. QED  BY <1>10, <3>1, <3>2
  <2>3. ASSUME NEW p \in Providers, Apply(e, file.doc).refresh[p] # NoToken
        PROVE  Apply(e, file.doc).refresh[p] \in live'
    <3>1. CASE p = r.edit.p /\ rotates
      <4>1. e.refresh = t /\ t # NoToken
        BY <1>0, <1>4, <3>1 DEF NoToken
      <4>2. Apply(e, file.doc).refresh[p] = t
        BY <1>4, <1>7, <3>1, <4>1, ApplyTokens
      <4>. QED  BY <1>1, <3>1, <4>2
    <3>2. CASE p = r.edit.p /\ ~ rotates
      <4>1. Apply(e, file.doc).refresh[p] \in {old, file.doc.refresh[p]}
        BY <1>4, <1>7, <3>2, ApplyTokens
      <4>2. Apply(e, file.doc).refresh[p] \in live
        BY <2>1, <2>3, <4>1 DEF Settled, Honoured, Refreshed
      <4>. QED  BY <1>1, <3>2, <4>2
    <3>3. CASE p # r.edit.p
      <4>. DEFINE n == file.doc.refresh[p]
      <4>1. Apply(e, file.doc).refresh[p] = n
        BY <1>4, <1>7, <3>3, ApplyTokens
      <4>2. n \in live
        BY <2>1, <2>3, <4>1 DEF Settled, Honoured
      <4>3. n \in Tokens
        BY <1>7, <2>3, <4>1 DEF PairedDocs, Docs0, Tokens
      <4>4. n # old
        <5>. SUFFICES ASSUME n = old PROVE FALSE
          OBVIOUS
        <5>1. Carries(r, r.edit.p, n)
          BY <1>6 DEF Carries, InEdit
        <5>2. Holds(p, n) /\ Holds(r.edit.p, n)
          BY <1>0, <5>1 DEF Holds, Others
        <5>. QED  BY <1>6, <3>3, <4>3, <5>2 DEF OwnInv
      <4>. QED  BY <1>10, <4>1, <4>2, <4>4
    <3>. QED  BY <3>1, <3>2, <3>3
  <2>4. LoginHonoured'
    BY <1>8, <2>2 DEF LoginHonoured
  <2>5. Honoured(Apply(job'["refresh"].edit, file'.doc), live')
    BY <1>3, <1>5, <1>8, <2>3 DEF Honoured
  <2>6. job'["refresh"].pc = "read"
    BY <1>3, <1>8
  <2>. QED  BY <2>4, <2>5, <2>6 DEF Turning
<1>. QED  BY <1>3, <1>5, <1>8, <1>11 DEF LiveInv

\* A document that goes into the file without an overlap is one of honoured
\* tokens, the answer's included.
LEMMA LivePut ==
    ASSUME DocInv, WriteInv, LiveInv, KindInv', NEW w \in Writers, Put(w)
    PROVE  LiveInv'
<1>0. job \in [Writers -> Jobs] /\ "refresh" \in Writers /\ "cli" \in Writers
  BY DEF DocInv, Writers
<1>1. PICK j \in FollowUps(w) :
        job' = [v \in Writers |-> IF v = w THEN j
                                  ELSE IF job[v].base = "fresh" THEN [job[v] EXCEPT !.base = "stale"]
                                  ELSE job[v]]
  BY DEF Put
<1>2. j.edit.kind # "tokens" /\ j.pc \in {"idle", "read"} /\ job'[w] = j
  BY <1>1, FollowUpStages DEF Idle, Template
<1>3. \A v \in Writers \ {w} : /\ job'[v].pc = job[v].pc /\ job'[v].edit = job[v].edit
                               /\ job'[v].base # "fresh"
  BY <1>0, <1>1 DEF Jobs
<1>4. /\ raced \/ job[w].base = "stale" => raced'
      /\ live' = live /\ job[w].pc = "put"
  BY Zenon DEF Put
<1>5. ~ raced' => Fresh(w) /\ file.state = "empty"
  BY <1>0, <1>4 DEF WriteInv, StageInv, Fresh, Jobs
<1>6. ~ raced' => file' = Whole(job[w].doc)
  BY <1>5 DEF Put
<1>7. CASE Rotating /\ w # "refresh"
  BY <1>0, <1>3, <1>7 DEF LiveInv, Rotating
<1>8. ASSUME ~ Rotating \/ w = "refresh", ~ raced' PROVE ~ Rotating' /\ Settled'
  <2>1. ~ Rotating'
    BY <1>0, <1>2, <1>3, <1>8 DEF Rotating
  <2>2. LoginHonoured /\ Honoured(job[w].doc, live)
    <3>1. CASE ~ Rotating
      BY <1>4, <1>5, <1>8, <3>1 DEF LiveInv, Settled
    <3>2. CASE Rotating
      BY <1>4, <1>5, <1>8, <3>2 DEF LiveInv, Turning, Fresh
    <3>. QED  BY <3>1, <3>2
  <2>3. Honoured(file'.doc, live')
    BY <1>4, <1>6, <1>8, <2>2 DEF Whole
  <2>4. LoginHonoured'
    BY <1>0, <1>2, <1>3, <1>4, <2>2 DEF LoginHonoured, InEdit
  <2>5. \A v \in Writers : ~ Fresh(v)'
    BY <1>2, <1>3 DEF Fresh
  <2>. QED  BY <2>1, <2>3, <2>4, <2>5 DEF Settled
<1>. QED  BY <1>7, <1>8 DEF LiveInv

\* A refresh with its answer reads the file, or empties it.
LEMMA LiveTurning ==
    ASSUME DocInv, LiveInv, KindInv', Rotating, Read("refresh") \/ Truncate("refresh")
    PROVE  LiveInv'
<1>. DEFINE r == job["refresh"]
<1>0. job \in [Writers -> Jobs] /\ "refresh" \in Writers /\ "cli" \in Writers /\ r \in Jobs
  BY DEF DocInv, Writers
<1>1. live' = live /\ job'["cli"] = job["cli"] /\ (raced => raced')
  <2>1. live' = live /\ job'["cli"] = job["cli"]
    BY <1>0 DEF Read, Truncate, Set
  <2>2. raced => raced'
    BY Zenon DEF Read, Truncate
  <2>. QED  BY <2>1, <2>2
<1>2. LoginHonoured => LoginHonoured'
  BY <1>1 DEF LoginHonoured
<1>3. CASE Read("refresh")
  <2>. DEFINE j == [r EXCEPT !.pc = "cut", !.doc = Apply(r.edit, file.doc),
                             !.base = IF @ = "none" THEN "fresh" ELSE @]
  <2>1. job'["refresh"] = j /\ r.pc = "read"
    BY <1>0, <1>3 DEF Read, Set
  <2>2. j.pc = "cut" /\ j.edit = r.edit /\ j.doc = Apply(r.edit, file.doc) /\ (r.base # "none" => j.base = r.base)
    BY <1>0 DEF Jobs
  <2>. HIDE DEF j
  <2>3. r.base # "none"
    BY DEF LiveInv, KindInv, Rotating
  <2>4. Rotating'
    BY <2>1, <2>2 DEF Rotating
  <2>5. ~ raced' /\ job'["refresh"].base = "fresh" => Turning'
    BY <1>1, <1>2, <2>1, <2>2, <2>3 DEF LiveInv, Turning
  <2>. QED  BY <2>4, <2>5 DEF LiveInv
<1>4. CASE Truncate("refresh")
  <2>. DEFINE j == [r EXCEPT !.pc = "put"]
  <2>1. job'["refresh"] = j /\ r.pc = "cut"
    BY <1>0, <1>4 DEF Truncate, Set
  <2>2. j.pc = "put" /\ j.edit = r.edit /\ j.doc = r.doc /\ j.base = r.base
    BY <1>0 DEF Jobs
  <2>. HIDE DEF j
  <2>3. Rotating'
    BY <2>1, <2>2 DEF Rotating
  <2>4. ~ raced' /\ job'["refresh"].base = "fresh" => Turning'
    BY <1>1, <1>2, <2>1, <2>2 DEF LiveInv, Turning
  <2>. QED  BY <2>3, <2>4 DEF LiveInv
<1>. QED  BY <1>3, <1>4

\* Every step keeps what the server honours where it is needed.
LEMMA LiveStep == DocInv /\ WriteInv /\ OwnInv /\ LiveInv /\ [Next]_vars => LiveInv'
<1>. SUFFICES ASSUME DocInv, WriteInv, OwnInv, LiveInv, [Next]_vars PROVE LiveInv'
  OBVIOUS
<1>0. job \in [Writers -> Jobs] /\ {"loop", "watcher", "refresh", "cli"} = Writers
  BY DEF DocInv, Writers
<1>k. KindInv'
  BY KindStep DEF LiveInv
<1>1. CASE UNCHANGED vars
  BY <1>1 DEF vars, LiveInv, KindInv, Settled, Turning, LoginHonoured, Honoured, Fresh, Rotating
<1>l. ASSUME Load(Parses), file' = file, live' = live, job["watcher"].pc = "idle"
      PROVE  LiveInv'
  <2>r. raced => raced'
    BY <1>l, Zenon DEF Load
  <2>1. CASE job' = job
    <3>1. LoginHonoured => LoginHonoured'
      BY <1>l, <2>1 DEF LoginHonoured
    <3>2. Settled => Settled'
      BY <1>l, <2>1, <3>1 DEF Settled, Fresh, Honoured
    <3>3. Turning => Turning'
      BY <1>l, <2>1, <3>1 DEF Turning, Honoured
    <3>. QED  BY <1>k, <2>r, <2>1, <3>2, <3>3 DEF LiveInv, Rotating
  <2>. DEFINE j == [Idle EXCEPT !.pc = "cut", !.doc = DefaultDoc, !.base = "fresh"]
  <2>2. CASE Set("watcher", j)
    <3>1. j.doc = DefaultDoc
      BY DEF Idle
    <3>2. Honoured(j.doc, live)
      BY <3>1, HonouredKept
    <3>. HIDE DEF j
    <3>. QED  BY <1>0, <1>k, <1>l, <2>r, <2>2, <3>2, LiveSet
  <2>. QED  BY <1>l, <2>1, <2>2 DEF Load
<1>2. CASE StartDaemon
  BY <1>2, <1>l DEF StartDaemon
<1>3. CASE OnFileEvent
  BY <1>3, <1>l DEF OnFileEvent
<1>4. CASE OnConfigChange
  BY <1>4 DEF OnConfigChange, LiveInv, KindInv, Settled, Turning, LoginHonoured, Honoured, Fresh, Rotating
<1>14. CASE Watch
  BY <1>14 DEF Watch, LiveInv, KindInv, Settled, Turning, LoginHonoured, Honoured, Fresh, Rotating
<1>5. CASE Refreshed
  BY <1>5, <1>k, LiveRefreshed
<1>6. CASE NotRefreshed
  <2>1. ~ Rotating /\ Set("refresh", Idle) /\ UNCHANGED <<file, live, raced>>
    BY <1>6 DEF NotRefreshed, Rotating
  <2>2. Idle.edit.kind # "tokens" /\ Idle.pc = "idle"
    BY DEF Idle, Template
  <2>. QED  BY <1>0, <1>k, <2>1, <2>2, LiveSet
<1>7. CASE KillDaemon
  <2>1. job' = [v \in Writers |-> IF v \in Daemon THEN Idle ELSE job[v]]
    BY <1>7 DEF KillDaemon
  <2>2. UNCHANGED <<file, live>>
    BY <1>7 DEF KillDaemon
  <2>3. ~ raced' => ~ raced /\ job["refresh"].pc \in {"idle", "await"}
    BY <1>7, Zenon DEF KillDaemon, Daemon
  <2>4. ~ raced' => ~ Rotating
    BY <2>3 DEF LiveInv, KindInv, Rotating
  <2>5. ~ Rotating'
    BY <1>0, <2>1 DEF Rotating, Daemon, Idle, Template
  <2>6. job'["cli"] = job["cli"] /\ \A v \in Writers : Fresh(v)' => Fresh(v) /\ job'[v] = job[v]
    BY <1>0, <2>1 DEF Fresh, Daemon, Idle
  <2>7. LoginHonoured => LoginHonoured'
    BY <2>2, <2>6 DEF LoginHonoured
  <2>8. Settled => Settled'
    BY <2>2, <2>6, <2>7 DEF Settled
  <2>. QED  BY <1>k, <2>3, <2>4, <2>5, <2>8 DEF LiveInv
<1>8. CASE AddPermissionToConfig
  <2>1. PICK x \in Entries : Set("loop", Editing(AllowEdit(x), FALSE, "none"))
    BY <1>8 DEF AddPermissionToConfig
  <2>2. Editing(AllowEdit(x), FALSE, "none").pc = "read"
    BY DEF Editing, Idle
  <2>3. UNCHANGED <<file, live, raced>>
    BY <1>8 DEF AddPermissionToConfig
  <2>. QED  BY <1>0, <1>k, <2>1, <2>2, <2>3, LiveSet
<1>9. ASSUME NEW p \in Providers, MaybeRefreshStoredToken(p) PROVE LiveInv'
  <2>. DEFINE j == [Idle EXCEPT !.pc = "await", !.edit = TokensEdit(p, NoToken, file.doc.refresh[p]), !.base = "fresh"]
  <2>1. Set("refresh", j) /\ j.pc = "await" /\ UNCHANGED <<file, live, raced>> /\ job["refresh"].pc = "idle"
    BY <1>9 DEF MaybeRefreshStoredToken, Idle
  <2>2. ~ Rotating
    BY <2>1 DEF LiveInv, KindInv, Rotating
  <2>. HIDE DEF j
  <2>. QED  BY <1>0, <1>k, <2>1, <2>2, LiveSet
<1>10. ASSUME NEW p \in Providers, Login(p) PROVE LiveInv'
  <2>1. PICK n \in {NoToken, tokens + 1} :
          /\ live' = live \cup ({n} \ {NoToken})
          /\ Set("cli", Editing(TokensEdit(p, tokens + 1, n), TRUE, "none"))
    BY <1>10 DEF Login
  <2>. DEFINE j == Editing(TokensEdit(p, tokens + 1, n), TRUE, "none")
  <2>2. j.pc = "read" /\ j.edit.refresh = n
    BY DEF Editing, Idle, TokensEdit
  <2>3. UNCHANGED <<file, raced>> /\ live \subseteq live'
    BY <1>10, <2>1 DEF Login
  <2>. HIDE DEF j
  <2>4. \A q \in Providers, t \in Tokens : InEdit(j.edit, q, t) => t \in live'
    BY <2>1, <2>2 DEF InEdit, Tokens
  <2>. QED  BY <1>0, <1>k, <2>1, <2>2, <2>3, <2>4, LiveSet DEF j
<1>11. ASSUME NEW w \in Writers, Read(w) PROVE LiveInv'
  <2>1. CASE w = "refresh" /\ Rotating
    BY <1>11, <1>k, <2>1, LiveTurning
  <2>2. CASE ~ (w = "refresh" /\ Rotating)
    <3>. DEFINE j == [job[w] EXCEPT !.pc = "cut", !.doc = Apply(job[w].edit, file.doc),
                                    !.base = IF @ = "none" THEN "fresh" ELSE @]
    <3>1. Set(w, j) /\ UNCHANGED <<file, live>> /\ job[w].pc = "read"
      BY <1>11 DEF Read
    <3>2. raced => raced'
      BY <1>11, Zenon DEF Read
    <3>3. j.edit = job[w].edit /\ j.doc = Apply(job[w].edit, file.doc)
      BY <1>0 DEF Jobs
    <3>. HIDE DEF j
    <3>4. ~ raced' /\ ~ Rotating => Honoured(j.doc, live)
      BY <3>1, <3>2, <3>3, ApplyHonoured DEF LiveInv
    <3>5. w = "refresh" => ~ Rotating /\ j.edit.kind # "tokens"
      BY <2>2, <3>1, <3>3 DEF Rotating
    <3>. QED  BY <1>k, <3>1, <3>2, <3>3, <3>4, <3>5, LiveSet
  <2>. QED  BY <2>1, <2>2
<1>12. ASSUME NEW w \in Writers, Truncate(w) PROVE LiveInv'
  <2>1. CASE w = "refresh" /\ Rotating
    BY <1>12, <1>k, <2>1, LiveTurning
  <2>2. CASE ~ (w = "refresh" /\ Rotating)
    <3>. DEFINE j == [job[w] EXCEPT !.pc = "put"]
    <3>1. Set(w, j) /\ file'.doc = EmptyDoc /\ UNCHANGED <<live, raced>> /\ job[w].pc = "cut"
      BY <1>12 DEF Truncate, NoDoc
    <3>2. j.edit = job[w].edit /\ j.doc = job[w].doc /\ j.base = job[w].base
      BY <1>0 DEF Jobs
    <3>. HIDE DEF j
    <3>3. ~ raced' /\ ~ Rotating /\ j.base = "fresh" => Honoured(j.doc, live)
      BY <3>1, <3>2 DEF LiveInv, Settled, Fresh
    <3>4. w = "refresh" => ~ Rotating /\ j.edit.kind # "tokens"
      BY <2>2, <3>1, <3>2 DEF Rotating
    <3>. QED  BY <1>k, <3>1, <3>2, <3>3, <3>4, LiveSet
  <2>. QED  BY <2>1, <2>2
<1>13. ASSUME NEW w \in Writers, Put(w) PROVE LiveInv'
  BY <1>13, <1>k, LivePut
<1>. QED  BY <1>1, <1>2, <1>3, <1>4, <1>14, <1>5, <1>6, <1>7, <1>8, <1>9, <1>10, <1>11, <1>12, <1>13 DEF Next, DaemonStep, Write

\* As long as no two accesses overlap, the refresh token in the file is one
\* the server honours, whatever the server rotates and wherever the daemon
\* is killed: a user who has logged in stays so (maybe_refresh_stored_token).
THEOREM LoginsLast == Spec => []StoredTokenHonoured
<1>1. Init => OwnInv /\ LiveInv
  BY InitTokens
<1>2. IInv /\ WriteInv /\ OwnInv /\ LiveInv /\ [Next]_vars => OwnInv' /\ LiveInv'
  BY OwnStep, LiveStep DEF IInv
<1>3. LiveInv => StoredTokenHonoured
  BY DEF LiveInv, KindInv, Settled, Honoured, Rotating, StoredTokenHonoured
<1>. QED  BY <1>1, <1>2, <1>3, Writing, PTL DEF Spec
=============================================================================
