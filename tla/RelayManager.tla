---------------------------- MODULE RelayManager ----------------------------
(***************************************************************************)
(* The daemon's half of the shell-lease protocol: RelayManager             *)
(* (codivd/src/agent/relay_manager.rs), one per client session, and the    *)
(* handlers of the daemon loop that drive it.                              *)
(*                                                                         *)
(* Threads of control, all interleaved by tokio: one task per bash tool    *)
(* call inside execute_bash, whose program counter pc[c] names the await   *)
(* the call has reached; one timeout task per started command; and the     *)
(* daemon's main loop, which handles one client message at a time.  The    *)
(* `ops` mutex makes each critical section one step.                       *)
(***************************************************************************)
EXTENDS LeaseProtocol, FiniteSets

VARIABLES ops,        \* RelayManager::ops, by lease; NoOp when absent
          pc,         \* where each execute_bash call is
          leaseRx,    \* the oneshot a call waits on for its lease
          outcome,    \* the oneshot a call waits on for its result
          timer,      \* the execution-timeout task of each call
          relay,      \* the session (client id) whose RelayManager the call uses
          doomed,     \* calls whose agent task was told to abort and still runs
          sessions,   \* the client ids the daemon holds a ClientSession for
          cancelling  \* the session being cancelled by the main loop, or 0

daemonVars == <<ops, pc, leaseRx, outcome, timer, relay, doomed, sessions, cancelling>>

----------------------------------------------------------------------------
LeasePhase   == {"Requested", "Queued", "Acquired", "Released"}
CommandPhase == {"None", "Sent", "Started", "Completed", "TimedOut", "Cancelled", "Failed"}
Outcome      == {"Completed", "TimedOut", "Cancelled", "Failed"}
PC           == {"idle", "acquire", "lease", "execute", "result", "cleanup",
                 "returned", "aborted"}

NoOp == [lease |-> "NoOp"]

Op == [lease : LeasePhase, cmd : CommandPhase,
       resultTx : BOOLEAN, leaseTx : BOOLEAN]

FreshOp == [lease |-> "Requested", cmd |-> "None", resultTx |-> TRUE, leaseTx |-> TRUE]

WithLease(op, p) == [op EXCEPT !.lease = p]
WithCmd(op, p)   == [op EXCEPT !.cmd = p]
Granted(op)      == [op EXCEPT !.lease = "Acquired", !.leaseTx = FALSE]   \* lease_acquired_tx.take()
Resolved(op, p)  == [op EXCEPT !.cmd = p, !.resultTx = FALSE]             \* result_tx.take()

Over(c) == pc[c] \in {"returned", "aborted"}
Live(c) == pc[c] # "idle" /\ ~ Over(c)

TerminalLease   == {"Released", "Cancelled"}
TerminalCommand == {"Completed", "TimedOut", "Cancelled", "Failed"}

DaemonInit ==
    /\ ops        = [c \in Calls |-> NoOp]
    /\ pc         = [c \in Calls |-> "idle"]
    /\ leaseRx    = [c \in Calls |-> "pending"]
    /\ outcome    = [c \in Calls |-> "pending"]
    /\ timer      = [c \in Calls |-> "off"]
    /\ relay      = [c \in Calls |-> 0]
    /\ doomed     = {}
    /\ sessions   = {conn}
    /\ cancelling = 0

----------------------------------------------------------------------------
(* execute_bash, from one await to the next.                               *)

Reachable(c) == up /\ relay[c] = conn

\* The mpsc send to the client's writer task.  After the socket closed the frame
\* is lost, and once the writer task has noticed, the send fails.
SendToClient(c, type) ==
    d2c' = IF Reachable(c) THEN Append(d2c, DMsg(type, c)) ELSE d2c

Goto(c, label) == pc' = [pc EXCEPT ![c] = label]

\* The agent task of session r calls bash; it runs until its abort.
Register(c, r) ==
    /\ pc[c] = "idle"
    /\ r \in sessions \/ (r = cancelling /\ r # 0)
    /\ ops'   = [ops EXCEPT ![c] = FreshOp]
    /\ relay' = [relay EXCEPT ![c] = r]
    /\ Goto(c, "acquire")
    /\ UNCHANGED <<leaseRx, outcome, timer, doomed, sessions, cancelling, d2c, c2d>>

\* A failed send returns through `?` and leaves the op in the map.
SendAcquire(c) ==
    /\ pc[c] = "acquire"
    /\ SendToClient(c, "AcquireShellLease")
    /\ Goto(c, "lease") \/ (~ Reachable(c) /\ Goto(c, "returned"))
    /\ UNCHANGED <<ops, leaseRx, outcome, timer, relay, doomed, sessions, cancelling, c2d>>

\* The lease oneshot fired: register the command if the op is still there.
LeaseGranted(c) ==
    /\ pc[c] = "lease"
    /\ leaseRx[c] = "fired"
    /\ ops' = IF ops[c] = NoOp THEN ops ELSE [ops EXCEPT ![c] = WithCmd(@, "Sent")]
    /\ Goto(c, "execute")
    /\ UNCHANGED <<leaseRx, outcome, timer, relay, doomed, sessions, cancelling, d2c, c2d>>

\* The lease oneshot was dropped: clean up and give the call an error.
LeaseCancelled(c) ==
    /\ pc[c] = "lease"
    /\ leaseRx[c] = "dropped"
    /\ ops'   = [ops EXCEPT ![c] = NoOp]
    /\ timer' = [timer EXCEPT ![c] = "off"]
    /\ Goto(c, "returned")
    /\ UNCHANGED <<leaseRx, outcome, relay, doomed, sessions, cancelling, d2c, c2d>>

SendExecute(c) ==
    /\ pc[c] = "execute"
    /\ SendToClient(c, "ExecuteLeasedCommand")
    /\ Goto(c, "result") \/ (~ Reachable(c) /\ Goto(c, "returned"))
    /\ UNCHANGED <<ops, leaseRx, outcome, timer, relay, doomed, sessions, cancelling, c2d>>

\* The result arrived: release the lease (a failed send is ignored).
SendRelease(c) ==
    /\ pc[c] = "result"
    /\ outcome[c] # "pending"
    /\ SendToClient(c, "ReleaseShellLease")
    /\ Goto(c, "cleanup")
    /\ UNCHANGED <<ops, leaseRx, outcome, timer, relay, doomed, sessions, cancelling, c2d>>

CleanUp(c) ==
    /\ pc[c] = "cleanup"
    /\ ops'   = [ops EXCEPT ![c] = NoOp]
    /\ timer' = [timer EXCEPT ![c] = "off"]
    /\ Goto(c, "returned")
    /\ UNCHANGED <<leaseRx, outcome, relay, doomed, sessions, cancelling, d2c, c2d>>

\* An aborted agent task drops the call at an await; nothing is cleaned up.
Abort(c) ==
    /\ c \in doomed
    /\ Live(c)
    /\ doomed' = doomed \ {c}
    /\ Goto(c, "aborted")
    /\ UNCHANGED <<ops, leaseRx, outcome, timer, relay, sessions, cancelling, d2c, c2d>>

----------------------------------------------------------------------------
(* The timeout task of a started command.                                  *)

TimerExpire(c) ==
    /\ timer[c] = "armed"
    /\ ops[c] # NoOp
    /\ ops[c].cmd = "Started"
    /\ ops' = [ops EXCEPT ![c] = Resolved(@, "TimedOut")]
    /\ outcome' = IF ops[c].resultTx THEN [outcome EXCEPT ![c] = "TimedOut"] ELSE outcome
    /\ timer' = [timer EXCEPT ![c] = "firing"]
    /\ UNCHANGED <<pc, leaseRx, relay, doomed, sessions, cancelling, d2c, c2d>>

SendCancel(c) ==
    /\ timer[c] = "firing"
    /\ SendToClient(c, "CancelLeasedCommand")
    /\ timer' = [timer EXCEPT ![c] = "off"]
    /\ UNCHANGED <<ops, pc, leaseRx, outcome, relay, doomed, sessions, cancelling, c2d>>

----------------------------------------------------------------------------
(* The main loop: client messages, each handled under the ops mutex.       *)

\* The main loop is not inside handle_cancel_request or the stale cleanup.
LoopFree == cancelling = 0

Receive(type) ==
    /\ LoopFree
    /\ c2d # <<>>
    /\ Head(c2d).type = type
    /\ c2d' = Tail(c2d)

\* The message at the head names an op of its sender's session.
HasOp(l) ==
    /\ l \in Calls
    /\ ops[l] # NoOp
    /\ relay[l] = Head(c2d).from
    /\ relay[l] \in sessions

OnLeaseAcquired ==
    /\ Receive("ShellLeaseAcquired")
    /\ LET l == Head(c2d).lease IN
       IF HasOp(l) /\ ops[l].lease \in {"Requested", "Queued"}
       THEN /\ ops' = [ops EXCEPT ![l] = Granted(@)]
            /\ leaseRx' = IF ops[l].leaseTx THEN [leaseRx EXCEPT ![l] = "fired"] ELSE leaseRx
       ELSE UNCHANGED <<ops, leaseRx>>
    /\ UNCHANGED <<pc, outcome, timer, relay, doomed, sessions, cancelling, d2c>>

OnLeaseQueued ==
    /\ Receive("ShellLeaseQueued")
    /\ LET l == Head(c2d).lease IN
       ops' = IF HasOp(l) /\ ops[l].lease = "Requested"
              THEN [ops EXCEPT ![l] = WithLease(@, "Queued")] ELSE ops
    /\ UNCHANGED <<pc, leaseRx, outcome, timer, relay, doomed, sessions, cancelling, d2c>>

\* Mutant of OnLeaseReleased: the lease enters a phase the map never shows.
ReleasedAsCancelled ==
    /\ Receive("ShellLeaseReleased")
    /\ LET l == Head(c2d).lease IN
       ops' = IF HasOp(l) THEN [ops EXCEPT ![l] = WithLease(@, "Cancelled")] ELSE ops
    /\ UNCHANGED <<pc, leaseRx, outcome, timer, relay, doomed, sessions, cancelling, d2c>>

OnLeaseReleased ==
    /\ Receive("ShellLeaseReleased")
    /\ LET l == Head(c2d).lease IN
       ops' = IF HasOp(l) /\ ops[l].lease \notin TerminalLease
              THEN [ops EXCEPT ![l] = WithLease(@, "Released")] ELSE ops
    /\ UNCHANGED <<pc, leaseRx, outcome, timer, relay, doomed, sessions, cancelling, d2c>>

\* Mutant of OnCommandStarted: no timeout task is spawned.
StartedUntimed ==
    /\ Receive("CommandStarted")
    /\ LET l == Head(c2d).lease IN
       ops' = IF HasOp(l) /\ ops[l].cmd = "Sent" /\ Head(c2d).exec = l
              THEN [ops EXCEPT ![l] = WithCmd(@, "Started")] ELSE ops
    /\ UNCHANGED <<pc, leaseRx, outcome, timer, relay, doomed, sessions, cancelling, d2c>>

OnCommandStarted ==
    /\ Receive("CommandStarted")
    /\ LET l == Head(c2d).lease IN
       IF HasOp(l) /\ ops[l].cmd = "Sent" /\ Head(c2d).exec = l
       THEN /\ ops'   = [ops EXCEPT ![l] = WithCmd(@, "Started")]
            /\ timer' = [timer EXCEPT ![l] = "armed"]
       ELSE UNCHANGED <<ops, timer>>
    /\ UNCHANGED <<pc, leaseRx, outcome, relay, doomed, sessions, cancelling, d2c>>

\* on_command_completed, on_command_failed and on_command_cancelled have one
\* shape: abort the timer, then resolve the command unless it is terminal.
Resolve(type, phase) ==
    /\ Receive(type)
    /\ LET l == Head(c2d).lease IN
       IF HasOp(l)
       THEN /\ timer' = [timer EXCEPT ![l] = "off"]
            /\ IF ops[l].cmd \notin TerminalCommand \cup {"None"} /\ Head(c2d).exec = l
               THEN /\ ops' = [ops EXCEPT ![l] = Resolved(@, phase)]
                    /\ outcome' = IF ops[l].resultTx
                                  THEN [outcome EXCEPT ![l] = phase] ELSE outcome
               ELSE UNCHANGED <<ops, outcome>>
       ELSE UNCHANGED <<ops, outcome, timer>>
    /\ UNCHANGED <<pc, leaseRx, relay, doomed, sessions, cancelling, d2c>>

OnCommandCompleted == Resolve("CommandCompleted", "Completed")
OnCommandFailed    == Resolve("CommandFailed", "Failed")
OnCommandCancelled == Resolve("CommandCancelled", "Cancelled")

----------------------------------------------------------------------------
(* Cancellation: cancel_all empties the map without telling the client;    *)
(* its callers then abort the agent task.                                  *)

\* Mutant of CancelAll: only calls whose command is registered are resolved.
CancelCommandsOnly(r) ==
    LET hit == {c \in Calls : relay[c] = r /\ ops[c] # NoOp} IN
    /\ outcome' = [c \in Calls |-> IF c \in hit /\ ops[c].cmd # "None" /\ ops[c].resultTx
                                  THEN "Cancelled" ELSE outcome[c]]
    /\ leaseRx' = [c \in Calls |->
                     IF c \in hit /\ ops[c].leaseTx THEN "dropped" ELSE leaseRx[c]]
    /\ timer' = [c \in Calls |-> IF c \in hit THEN "off" ELSE timer[c]]
    /\ ops' = [c \in Calls |-> IF c \in hit THEN NoOp ELSE ops[c]]

CancelAll(r) ==
    LET hit == {c \in Calls : relay[c] = r /\ ops[c] # NoOp} IN
    /\ outcome' = [c \in Calls |->
                     IF c \in hit /\ ops[c].resultTx THEN "Cancelled" ELSE outcome[c]]
    /\ leaseRx' = [c \in Calls |->
                     IF c \in hit /\ ops[c].leaseTx THEN "dropped" ELSE leaseRx[c]]
    /\ timer' = [c \in Calls |-> IF c \in hit THEN "off" ELSE timer[c]]
    /\ ops' = [c \in Calls |-> IF c \in hit THEN NoOp ELSE ops[c]]

\* handle_cancel_request up to the await that cancel_all ends in.
HandleCancelRequest ==
    /\ Receive("CancelRequest")
    /\ LET r == Head(c2d).from IN
       IF r \in sessions
       THEN CancelAll(r) /\ cancelling' = r
       ELSE UNCHANGED <<ops, leaseRx, outcome, timer, cancelling>>
    /\ UNCHANGED <<pc, relay, doomed, sessions, d2c>>

\* cleanup_stale_sessions, for a client that went away: 120 s of silence.
CleanupStale(r) ==
    /\ LoopFree
    /\ r \in sessions
    /\ r # conn \/ ~ up
    /\ sessions' = sessions \ {r}
    /\ CancelAll(r)
    /\ cancelling' = r
    /\ UNCHANGED <<pc, relay, doomed, d2c, c2d>>

\* The abort that follows cancel_all.  Calls the agent task made meanwhile are
\* aborted with it.
AbortAgent ==
    /\ cancelling # 0
    /\ doomed' = doomed \cup {c \in Calls : relay[c] = cancelling /\ Live(c)}
    /\ cancelling' = 0
    /\ UNCHANGED <<ops, pc, leaseRx, outcome, timer, relay, sessions, d2c, c2d>>

----------------------------------------------------------------------------
CallStep(c) ==
    \/ SendAcquire(c) \/ LeaseGranted(c) \/ LeaseCancelled(c)
    \/ SendExecute(c) \/ SendRelease(c)  \/ CleanUp(c)

TimerStep(c) == TimerExpire(c) \/ SendCancel(c)

DaemonHandle ==
    \/ OnLeaseAcquired  \/ OnLeaseQueued      \/ OnLeaseReleased
    \/ OnCommandStarted \/ OnCommandCompleted \/ OnCommandFailed \/ OnCommandCancelled
    \/ HandleCancelRequest

DaemonTypeOK ==
    /\ ops        \in [Calls -> Op \cup {NoOp}]
    /\ pc         \in [Calls -> PC]
    /\ leaseRx    \in [Calls -> {"pending", "fired", "dropped"}]
    /\ outcome    \in [Calls -> Outcome \cup {"pending"}]
    /\ timer      \in [Calls -> {"off", "armed", "firing"}]
    /\ relay      \in [Calls -> 0 .. MaxConns]
    /\ doomed     \in SUBSET Calls
    /\ sessions   \in SUBSET (1 .. MaxConns)
    /\ cancelling \in 0 .. MaxConns
=============================================================================
