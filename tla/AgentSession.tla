---------------------------- MODULE AgentSession ----------------------------
(***************************************************************************)
(* Agent turns as a whole: one client, the daemon, the tasks of its runs   *)
(* and its store, over a connection that may break, with a client that may *)
(* be restarted, a daemon that may be restarted and a store whose appends  *)
(* may fail.                                                               *)
(***************************************************************************)
EXTENDS StreamClient

CONSTANTS Reloads,  \* the configuration file may change
          Breaks    \* the connection, the client and the daemon may stop

ASSUME EnvironmentAssumption == Reloads \in BOOLEAN /\ Breaks \in BOOLEAN

linkVars == <<conn, up>>
vars == <<storeVars, turnVars, clientVars, d2c, c2d, linkVars>>

Init ==
    /\ d2c = <<>> /\ c2d = <<>>
    /\ conn = 1 /\ up = TRUE
    /\ StoreInit
    /\ TurnInit
    /\ ClientInit

----------------------------------------------------------------------------
(* The connection.                                                         *)

\* What the client has not handled is lost; of what it sent, the daemon has
\* read some prefix.
LinkDown ==
    /\ Breaks
    /\ up' = FALSE
    /\ d2c' = <<>>
    /\ \E n \in 0 .. Len(c2d) : (~ up => n = Len(c2d)) /\ c2d' = SubSeq(c2d, 1, n)
    /\ UNCHANGED <<storeVars, turnVars, conn>>

Disconnect == up /\ LinkDown /\ UNCHANGED clientVars

\* The user quits the client; the daemon does not notice.
ClientStop ==
    /\ LinkDown
    /\ active' = NoRequest
    /\ compacting' = FALSE
    /\ view' = NoSession
    /\ UNCHANGED <<asked, inputs>>

\* Runs, agents and client sessions are gone; the store stays.
DaemonStop ==
    /\ Breaks /\ sess # {}
    /\ up' = FALSE
    /\ d2c' = <<>> /\ c2d' = <<>>
    /\ sess' = {}
    /\ rx' = [k \in Conns |-> NoRequest]
    /\ run' = [r \in Requests |-> IF Going(r) THEN [run[r] EXCEPT !.st = "over"] ELSE run[r]]
    /\ loop' = Idle
    /\ UNCHANGED <<storeVars, agent, needs, doomed, clientVars, conn>>

\* Mutant of Reconnect: the session is not asked for.
ReconnectForgets ==
    /\ ~ up
    /\ conn < MaxConns
    /\ LoopFree
    /\ conn' = conn + 1
    /\ up' = TRUE
    /\ sess' = sess \cup {conn'}
    /\ UNCHANGED <<storeVars, agent, rx, needs, run, doomed, loop, d2c, c2d, clientVars>>

\* The client connects, to the same daemon or the next one, and asks for the
\* session it shows; what it streams stays as it was.
Reconnect ==
    /\ ~ up
    /\ conn < MaxConns
    /\ LoopFree
    /\ conn' = conn + 1
    /\ up' = TRUE
    /\ sess' = sess \cup {conn'}
    /\ c2d' = IF view = NoSession THEN c2d
              ELSE Append(c2d, [type |-> "LoadSession", id |-> view, from |-> conn'])
    /\ UNCHANGED <<storeVars, agent, rx, needs, run, doomed, loop, d2c, clientVars>>

----------------------------------------------------------------------------
TurnStep ==
    \/ \E r \in Requests : RunStep(r)
    \/ LoopStep
    \/ Reloads /\ ConfigReload
    \/ Breaks /\ \E k \in sess : CleanupStale(k)

ClientStep == HandleMessage \/ UserStep

Next ==
    \/ TurnStep /\ UNCHANGED <<clientVars, linkVars>>
    \/ ClientStep /\ UNCHANGED <<storeVars, turnVars, linkVars>>
    \/ Disconnect \/ ClientStop \/ DaemonStop \/ Reconnect

Spec == Init /\ [][Next]_vars

----------------------------------------------------------------------------
(* Safety.                                                                 *)

Stored(e) == {p \in UNION {{s} \X DOMAIN stored[s] : s \in DOMAIN stored} :
                stored[p[1]][p[2]] = e}

\* Nothing is stored twice, in one session or in two, however prompts, agents
\* that return, cancellations and reconnections cross: an agent that came back
\* is collected once, and by one session.
NoDuplicates ==
    \A s \in DOMAIN stored : \A i \in DOMAIN stored[s] :
        stored[s][i].type \in {"prompt", "answer", "error", "command"} =>
            Cardinality(Stored(stored[s][i])) = 1

\* Session k uses up a seq for an event whose row does not come to be, although
\* no append failed: append_event found the seq taken.
Dropped(k) ==
    /\ seq'[k] = seq[k] + 1 /\ sid'[k] = sid[k] /\ sid[k] # NoSession
    /\ faults' = faults
    /\ stored'[sid[k]] = stored[sid[k]]

\* `seq` "must be monotonically increasing per session" (codivd/src/store.rs:115),
\* and the next one is counted once, when a session is loaded.  What the client's
\* session persists is dropped only after a failed append, or where a run that an
\* earlier connection left behind has stored its outcome since the count.
DropsExplained ==
    [][Dropped(conn) /\ faults = 0 =>
          LET taken == stored[sid[conn]][seq[conn] + 1] IN
          taken.type \in {"answer", "error"} /\ run[taken.id].from # conn]_vars

\* What the documentation counts to the timeline: commands, prompts, answers.
Timeline(history) == SelectSeq(history, LAMBDA e : e.type # "error")

\* The agent "is aware of what you have been doing" (website/src/content/docs/
\* usage/ai-mode.md:36-44): a run starts with all that the timeline of its
\* session holds.  (An error reaches an agent only when it is rebuilt.)
PromptedWithTimeline ==
    [][\A r \in Requests :
          run[r].st = "none" /\ run'[r].st = "running" =>
              Timeline(run'[r].history) = Timeline(LoadEvents(stored'[sid'[run'[r].from]]))]_vars

\* An answer is stored in the session that holds its prompt.
AnswersStayHome ==
    \A s \in DOMAIN stored : \A r \in Requests :
        Ev("answer", r) \in {stored[s][i] : i \in DOMAIN stored[s]} =>
            Ev("prompt", r) \in {stored[s][i] : i \in DOMAIN stored[s]}

\* The session the client shows, and would ask for after a reconnection, is the
\* one the daemon writes its events to.
ViewMatches ==
    up /\ d2c = <<>> /\ c2d = <<>> /\ LoopFree => view = sid[conn]

\* A compaction has failed and the client still waits for its end.
Abandoned == compacting /\ d2c = <<>> /\ LoopFree

\* The client shows that the agent works exactly while it does, unless a failed
\* compaction has spoilt its state.
HonestStream ==
    up /\ d2c = <<>> /\ c2d = <<>> /\ ~ Abandoned =>
        (Streaming <=> \/ loop.at # "idle"
                       \/ \E r \in Requests : run[r].from = conn /\ run[r].st = "running")

----------------------------------------------------------------------------
(* Liveness.                                                               *)

\* tokio runs every task that can go on and an aborted one is dropped; a
\* compaction ends (60 s); the client's loop turns.  No run has to end: the stream
\* has no timeout, and its bash call may wait for the shell for ever.  The user
\* need not do anything.
Fairness ==
    /\ \A r \in Requests :
          WF_vars((Return(r) \/ Drop(r)) /\ UNCHANGED <<clientVars, linkVars>>)
    /\ WF_vars(LoopStep /\ UNCHANGED <<clientVars, linkVars>>)
    /\ WF_vars(HandleMessage /\ UNCHANGED <<storeVars, turnVars, linkVars>>)

FairSpec == Spec /\ Fairness

\* Whatever the user sends meanwhile, the client stops waiting once no run goes
\* on for ever, unless for a compaction that failed.
StreamEnds ==
    (\A r \in Requests : []<>(run[r].st # "running")) =>
        (Streaming ~> ~ Streaming \/ ~ up \/ Abandoned)

\* An answer the agent has finished reaches the store.
AnswerStored ==
    \A r \in Requests : run[r].st = "answered" ~> Stored(Ev("answer", r)) # {}
=============================================================================
