----------------------------- MODULE AgentTurn ------------------------------
(***************************************************************************)
(* A turn of the agent, on the daemon: the main loop (codivd/src/          *)
(* daemon.rs) and its handlers for requests, cancellation, sessions and    *)
(* compaction (codivd/src/handlers), and the tasks they spawn.             *)
(*                                                                         *)
(* An agent is its history.  It is lent to the task of a run and comes     *)
(* back through a oneshot channel, which the main loop polls; the main     *)
(* loop handles one message at a time and waits inside a compaction.       *)
(***************************************************************************)
EXTENDS Conversation

CONSTANTS CompactionId,       \* the request id of a compaction
          AutoCompact,        \* answers may exceed the compaction threshold
          CompactionMayFail,  \* the summary may fail or take over 60 s
          SwiftReturn         \* no message overtakes the return of an agent

ASSUME TurnAssumption ==
    /\ CompactionId \notin Requests \cup {NoRequest}
    /\ AutoCompact \in BOOLEAN /\ CompactionMayFail \in BOOLEAN /\ SwiftReturn \in BOOLEAN

VARIABLES d2c,    \* frames from the daemon to the client, oldest first
          c2d,    \* frames from the client to the daemon, oldest first
          conn,   \* the client id of the client's latest connection
          up,     \* the socket of that connection is open
          sess,   \* the client ids the daemon holds a ClientSession for
          agent,  \* AgentState::agent, as its history; NoAgent when absent
          rx,     \* AgentState::agent_return_rx (and agent_task), by the run it is for
          needs,  \* AgentState::needs_compaction
          run,    \* the agent tasks
          doomed, \* the runs whose task was told to abort
          loop    \* where the main loop is

turnVars == <<sess, agent, rx, needs, run, doomed, loop>>

----------------------------------------------------------------------------
NoAgent == <<Lost>>
Idle    == [at |-> "idle", from |-> 0, req |-> NoRequest]

Going(r)    == run[r].st \in {"running", "answered", "failed"}
Returned(k) == rx[k] # NoRequest /\ run[rx[k]].st \in {"returned", "returnedError"}

TurnInit ==
    /\ sess   = {conn}
    /\ agent  = [k \in Conns |-> NoAgent]
    /\ rx     = [k \in Conns |-> NoRequest]
    /\ needs  = [k \in Conns |-> FALSE]
    /\ run    = [r \in Requests |-> [st |-> "none", from |-> 0, history |-> <<>>]]
    /\ doomed = {}
    /\ loop   = Idle

History(k) == IF agent[k] = NoAgent THEN <<>> ELSE agent[k]

Frame(type, id) == [type |-> type, id |-> id]

Sent(k, frames) == IF up /\ conn = k THEN d2c \o frames ELSE d2c

----------------------------------------------------------------------------
(* The task of a run (spawn_agent_task).                                   *)

\* Mutant of Finish: the failure of a run is not reported.
FinishSilently(r, st, type) ==
    /\ run[r].st = "running"
    /\ run' = [run EXCEPT ![r].st = st]
    /\ d2c' = IF type = "Error" THEN d2c ELSE Sent(run[r].from, <<Frame(type, r)>>)
    /\ UNCHANGED <<storeVars, sess, agent, rx, needs, doomed, loop, c2d>>

\* The stream ended: the frame goes out before the agent comes back.
Finish(r, st, type) ==
    /\ run[r].st = "running"
    /\ run' = [run EXCEPT ![r].st = st]
    /\ d2c' = Sent(run[r].from, <<Frame(type, r)>>)
    /\ UNCHANGED <<storeVars, sess, agent, rx, needs, doomed, loop, c2d>>

Answer(r) == Finish(r, "answered", "AgentComplete")
Fail(r)   == Finish(r, "failed", "Error")

\* agent_return_tx.send: lost when the session no longer holds the receiver.
Return(r) ==
    /\ run[r].st \in {"answered", "failed"}
    /\ run' = [run EXCEPT ![r].st = IF rx[run[r].from] # r THEN "over"
                                    ELSE IF @ = "answered" THEN "returned" ELSE "returnedError",
                          ![r].history = IF run[r].st = "answered"
                                         THEN Append(@, Ev("answer", r)) ELSE @]
    /\ UNCHANGED <<storeVars, sess, agent, rx, needs, doomed, loop, d2c, c2d>>

\* The abort takes effect at an await.
Drop(r) ==
    /\ r \in doomed
    /\ run[r].st = "running"
    /\ run' = [run EXCEPT ![r].st = "over"]
    /\ UNCHANGED <<storeVars, sess, agent, rx, needs, doomed, loop, d2c, c2d>>

----------------------------------------------------------------------------
(* The main loop: returned agents.                                         *)

LoopFree == loop = Idle

\* The agent is back, its events are persisted, and many input tokens ask for a
\* compaction.
Install(k, r) ==
    /\ agent' = [agent EXCEPT ![k] = run[r].history]
    /\ EnsureAndPersist(k, Ev(IF run[r].st = "returned" THEN "answer" ELSE "error", r))
    /\ \/ UNCHANGED needs
       \/ /\ AutoCompact /\ run[r].st = "returned"
          /\ needs' = [needs EXCEPT ![k] = TRUE]
    /\ UNCHANGED <<sess, run, doomed, loop, d2c, c2d>>

\* Mutants of Collect: agent_return_rx is not reset; it is reset also when the
\* agent is not back yet.
CollectAgain(k) ==
    /\ LoopFree /\ k \in sess /\ Returned(k)
    /\ Install(k, rx[k])
    /\ UNCHANGED rx

CollectOnce(k) ==
    /\ LoopFree /\ k \in sess /\ rx[k] # NoRequest
    /\ IF Returned(k) THEN Install(k, rx[k])
       ELSE UNCHANGED <<storeVars, sess, agent, needs, run, doomed, loop, d2c, c2d>>
    /\ rx' = [rx EXCEPT ![k] = NoRequest]

\* collect_returned_agents, for one session.
Collect(k) ==
    /\ LoopFree /\ k \in sess /\ Returned(k)
    /\ Install(k, rx[k])
    /\ rx' = [rx EXCEPT ![k] = NoRequest]

----------------------------------------------------------------------------
(* The main loop: messages.  Agents are collected before each of them.     *)

Receive(type) ==
    /\ LoopFree
    /\ \A k \in sess : ~ Returned(k)
    /\ SwiftReturn => \A r \in Requests : run[r].st \notin {"answered", "failed"}
    /\ c2d # <<>>
    /\ Head(c2d).type = type
    /\ c2d' = Tail(c2d)

From == Head(c2d).from

\* The message comes from a client the daemon has forgotten.
Ignore ==
    /\ c2d # <<>>
    /\ From \notin sess
    /\ Receive(Head(c2d).type)
    /\ UNCHANGED <<storeVars, turnVars, d2c>>

\* handle_compact_request up to its await; with the agent away nothing happens.
StartCompaction(k, r) ==
    /\ needs' = [needs EXCEPT ![k] = FALSE]
    /\ IF agent[k] = NoAgent
       THEN /\ loop' = IF r = NoRequest THEN Idle
                       ELSE [at |-> "request", from |-> k, req |-> r]
            /\ UNCHANGED d2c
       ELSE /\ loop' = [at |-> "compact", from |-> k, req |-> r]
            /\ d2c' = Sent(k, <<Frame("CompactionStarted", CompactionId)>>)

OnAgentRequest ==
    /\ Receive("AgentRequest")
    /\ From \in sess
    /\ IF needs[From]
       THEN StartCompaction(From, Head(c2d).id)
       ELSE /\ loop' = [at |-> "request", from |-> From, req |-> Head(c2d).id]
            /\ UNCHANGED <<needs, d2c>>
    /\ UNCHANGED <<storeVars, sess, agent, rx, run, doomed>>

\* SessionCreated goes out with the first event of a session.
Announce(k) ==
    IF seq[k] = 0 THEN <<Frame("SessionCreated", EnsuredId(k))>> ELSE <<>>

\* The rest of handle_agent_request: the prompt is persisted, the agent (or a
\* fresh one) is lent to a new task, and the session forgets the task before.
BeginRun ==
    /\ loop.at = "request"
    /\ LET k == loop.from
           r == loop.req IN
       /\ EnsureAndPersist(k, Ev("prompt", r))
       /\ d2c' = Sent(k, Announce(k))
       /\ run' = [run EXCEPT ![r] = [st |-> "running", from |-> k,
                                     history |-> Append(History(k), Ev("prompt", r))]]
       /\ agent' = [agent EXCEPT ![k] = NoAgent]
       /\ rx' = [rx EXCEPT ![k] = r]
    /\ loop' = Idle
    /\ UNCHANGED <<sess, needs, doomed, c2d>>

\* The task is aborted and the agent rebuilt from the store.
OnCancelRequest ==
    /\ Receive("CancelRequest")
    /\ From \in sess
    /\ LET k == From IN
       /\ doomed' = doomed \cup ({rx[k]} \ {NoRequest})
       /\ rx' = [rx EXCEPT ![k] = NoRequest]
       /\ agent' = IF sid[k] = NoSession THEN agent
                   ELSE [agent EXCEPT ![k] = LoadEvents(stored[sid[k]])]
       /\ d2c' = Sent(k, <<Frame("AgentComplete", Head(c2d).id)>>)
    /\ UNCHANGED <<storeVars, sess, needs, run, loop>>

\* A fresh agent and a fresh session, whatever the task is doing.
OnNewSession ==
    /\ Receive("NewSession")
    /\ From \in sess
    /\ LET k == From IN
       /\ agent'  = [agent EXCEPT ![k] = <<>>]
       /\ stored' = Append(stored, <<>>)
       /\ sid'    = [sid EXCEPT ![k] = Len(stored) + 1]
       /\ seq'    = [seq EXCEPT ![k] = 0]
       /\ d2c'    = Sent(k, <<Frame("SessionCreated", Len(stored) + 1)>>)
    /\ UNCHANGED <<faults, sess, rx, needs, run, doomed, loop>>

\* Mutants of OnLoadSession: writing starts over; the agent keeps its history.
LoadFromZero ==
    /\ Receive("LoadSession")
    /\ From \in sess
    /\ LET k == From
           s == Head(c2d).id IN
       /\ agent' = [agent EXCEPT ![k] = LoadEvents(stored[s])]
       /\ sid'   = [sid EXCEPT ![k] = s]
       /\ seq'   = [seq EXCEPT ![k] = 0]
       /\ d2c'   = Sent(k, <<Frame("SessionCreated", s)>>)
    /\ UNCHANGED <<stored, faults, sess, rx, needs, run, doomed, loop>>

LoadKeepsAgent ==
    /\ Receive("LoadSession")
    /\ From \in sess
    /\ LET k == From
           s == Head(c2d).id IN
       /\ sid' = [sid EXCEPT ![k] = s]
       /\ seq' = [seq EXCEPT ![k] = EventCount(stored[s])]
       /\ d2c' = Sent(k, <<Frame("SessionCreated", s)>>)
    /\ UNCHANGED <<stored, faults, sess, agent, rx, needs, run, doomed, loop>>

\* The agent is rebuilt from the session, and writing goes on after its events.
OnLoadSession ==
    /\ Receive("LoadSession")
    /\ From \in sess
    /\ LET k == From
           s == Head(c2d).id IN
       /\ agent' = [agent EXCEPT ![k] = LoadEvents(stored[s])]
       /\ sid'   = [sid EXCEPT ![k] = s]
       /\ seq'   = [seq EXCEPT ![k] = EventCount(stored[s])]
       /\ d2c'   = Sent(k, <<Frame("SessionCreated", s)>>)
    /\ UNCHANGED <<stored, faults, sess, rx, needs, run, doomed, loop>>

\* The command is persisted and given to the agent that is there, or a fresh one.
OnCommandResult ==
    /\ Receive("CommandResult")
    /\ From \in sess
    /\ LET k == From
           e == Ev("command", Head(c2d).id) IN
       /\ EnsureAndPersist(k, e)
       /\ agent' = [agent EXCEPT ![k] = Append(History(k), e)]
       /\ d2c' = Sent(k, Announce(k))
    /\ UNCHANGED <<sess, rx, needs, run, doomed, loop>>

OnCompactRequest ==
    /\ Receive("CompactRequest")
    /\ From \in sess
    /\ StartCompaction(From, NoRequest)
    /\ UNCHANGED <<storeVars, sess, agent, rx, run, doomed>>

AfterCompaction ==
    IF loop.req = NoRequest THEN Idle ELSE [loop EXCEPT !.at = "request"]

\* The summary replaces the history, in a session of its own.
CompactDone ==
    /\ loop.at = "compact"
    /\ agent[loop.from] # <<>>
    /\ LET k == loop.from
           e == Ev("summary", Len(stored) + 1) IN
       /\ PersistAndRestart(k, e)
       /\ agent' = [agent EXCEPT ![k] = <<e>>]
       /\ d2c' = Sent(k, <<Frame("AgentComplete", CompactionId),
                           Frame("SessionCreated", Len(stored) + 1),
                           Frame("CompactionComplete", CompactionId)>>)
    /\ loop' = AfterCompaction
    /\ UNCHANGED <<sess, rx, needs, run, doomed, c2d>>

\* There is nothing to compact, or the summary failed or took too long.
CompactFail ==
    /\ loop.at = "compact"
    /\ CompactionMayFail \/ agent[loop.from] = <<>>
    /\ d2c' = Sent(loop.from, <<Frame("AgentComplete", CompactionId)>>)
    /\ loop' = AfterCompaction
    /\ UNCHANGED <<storeVars, sess, agent, rx, needs, run, doomed, c2d>>

----------------------------------------------------------------------------
(* The main loop: its other events.                                        *)

\* The configuration file changed: cached agents are dropped.
ConfigReload ==
    /\ LoopFree
    /\ agent' = [k \in Conns |-> IF k \in sess /\ rx[k] = NoRequest THEN NoAgent ELSE agent[k]]
    /\ UNCHANGED <<storeVars, sess, rx, needs, run, doomed, loop, d2c, c2d>>

\* 120 s without a heartbeat from a client that went away; agents are collected
\* before.
CleanupStale(k) ==
    /\ LoopFree /\ \A j \in sess : ~ Returned(j)
    /\ k \in sess /\ (k # conn \/ ~ up)
    /\ sess' = sess \ {k}
    /\ doomed' = doomed \cup ({rx[k]} \ {NoRequest})
    /\ rx' = [rx EXCEPT ![k] = NoRequest]
    /\ UNCHANGED <<storeVars, agent, needs, run, loop, d2c, c2d>>

RunEnds(r)  == Answer(r) \/ Fail(r)
RunStep(r)  == RunEnds(r) \/ Return(r) \/ Drop(r)

DaemonHandle ==
    \/ OnAgentRequest \/ OnCancelRequest \/ OnNewSession \/ OnLoadSession
    \/ OnCommandResult \/ OnCompactRequest \/ Ignore

LoopStep ==
    \/ DaemonHandle \/ BeginRun \/ CompactDone \/ CompactFail
    \/ \E k \in Conns : Collect(k)
=============================================================================
