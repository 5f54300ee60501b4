----------------------------- MODULE ShellLease -----------------------------
(***************************************************************************)
(* The shell-lease protocol as a whole: the daemon's RelayManager and the  *)
(* client's event loop over one socket connection that may break, with a   *)
(* client that reconnects and a daemon that may restart.                   *)
(***************************************************************************)
EXTENDS RelayManager, LeaseClient

linkVars == <<conn, up>>
vars == <<d2c, c2d, linkVars, daemonVars, clientVars>>

Init ==
    /\ d2c = <<>> /\ c2d = <<>>
    /\ conn = 1 /\ up = TRUE
    /\ DaemonInit
    /\ ClientInit

----------------------------------------------------------------------------
(* The connection.                                                         *)

\* The socket breaks: what the client has not handled is lost with the
\* receiver it drops, and of what it sent the daemon has read some prefix.
Disconnect ==
    /\ up
    /\ up' = FALSE
    /\ d2c' = <<>>
    /\ \E n \in 0 .. Len(c2d) : c2d' = SubSeq(c2d, 1, n)
    /\ UNCHANGED <<conn, daemonVars, clientVars>>

\* The daemon stops: its calls, sessions and buffers are gone.
DaemonStop ==
    /\ sessions # {}
    /\ sessions' = {}
    /\ up' = FALSE
    /\ d2c' = <<>> /\ c2d' = <<>>
    /\ cancelling' = 0
    /\ doomed' = {}
    /\ pc'    = [c \in Calls |-> IF Live(c) THEN "aborted" ELSE pc[c]]
    /\ ops'   = [c \in Calls |-> NoOp]
    /\ timer' = [c \in Calls |-> "off"]
    /\ UNCHANGED <<conn, leaseRx, outcome, relay, clientVars>>

\* The client reconnects at the end of a loop iteration, its leases as they
\* were, and the daemon opens a new session with a RelayManager of its own.
Reconnect ==
    /\ ~ up
    /\ LoopFree
    /\ phase = "select"
    /\ conn < MaxConns
    /\ conn' = conn + 1
    /\ up' = TRUE
    /\ sessions' = sessions \cup {conn'}
    /\ UNCHANGED <<d2c, c2d, ops, pc, leaseRx, outcome, timer, relay, doomed,
                   cancelling, clientVars>>

----------------------------------------------------------------------------
ClientStep ==
    \/ HandleLeaseMessage \/ UserStep \/ Wake
    \/ NotComplete \/ CommandOver \/ StartStep

DaemonStep ==
    \/ \E c \in Calls : \/ \E r \in sessions \cup {cancelling} : Register(c, r)
                        \/ CallStep(c) \/ Abort(c) \/ TimerStep(c)
    \/ DaemonHandle
    \/ \E r \in sessions : CleanupStale(r)
    \/ AbortAgent

Next ==
    \/ DaemonStep /\ UNCHANGED <<linkVars, clientVars>>
    \/ ClientStep /\ UNCHANGED <<linkVars, daemonVars>>
    \/ Disconnect \/ DaemonStop \/ Reconnect

Spec == Init /\ [][Next]_vars

TypeOK ==
    /\ d2c \in Seq(DaemonMessage)
    /\ c2d \in Seq(ClientMessage)
    /\ conn \in 1 .. MaxConns
    /\ up \in BOOLEAN
    /\ DaemonTypeOK
    /\ ClientTypeOK

----------------------------------------------------------------------------
(* Safety.                                                                 *)

\* The call was granted the shell and has not given it back.
Holding(c) ==
    /\ pc[c] \in {"lease", "execute", "result"}
    /\ leaseRx[c] = "fired"

\* The shell is leased to one call at a time, whatever was cancelled, aborted
\* or reconnected: a call that works under a lease is the client's active one.
HolderIsActive == \A c \in Calls : Holding(c) => active = c

\* execute_bash never waits on a oneshot whose sender is gone without a signal:
\* it has its answer, or its op still holds the sender for it.
WaiterServed ==
    \A c \in Calls :
        /\ pc[c] = "lease" /\ leaseRx[c] = "pending" =>
              ops[c] # NoOp /\ ops[c].leaseTx
        /\ pc[c] = "result" /\ outcome[c] = "pending" =>
              ops[c] # NoOp /\ ops[c].resultTx

\* A command that the daemon takes for running is timed, and a timeout task
\* never runs for a command that is over: aborting the task before the id and
\* phase checks (relay_manager.rs:329-335) loses no timer.
TimedWhileStarted ==
    \A c \in Calls :
        timer[c] = "armed" <=> ops[c] # NoOp /\ ops[c].cmd = "Started"

\* The client can attribute every command it runs for the daemon: when the
\* lease under which a command reports is not the command's own, no call waits
\* for that report any more.
ReportReachesItsCall ==
    \A m \in Range(c2d) :
        m.type \in {"CommandCompleted", "CommandStarted", "CommandFailed"} /\ m.lease # m.exec
        => ~ (pc[m.exec] = "result" /\ outcome[m.exec] = "pending")

\* No lost wake-up: while its connection lives, a call that waits for the lease
\* has its request or its grant under way, in the client's queue or in its hand.
RequestHeld(c) ==
    pc[c] = "lease" /\ leaseRx[c] = "pending" /\ Reachable(c) =>
        \/ InTransit(d2c, DMsg("AcquireShellLease", c))
        \/ InTransit(queue, c)
        \/ active = c /\ InTransit(c2d, CMsg("ShellLeaseAcquired", c))

RequestConserved == \A c \in Calls : RequestHeld(c)

\* No lost result: a call that waits for its command has the command on its way
\* to the shell, a report or the started mark on its way back, or a running timer.
CommandHeld(c) ==
    pc[c] = "result" /\ outcome[c] = "pending" /\ Reachable(c) =>
        \/ InTransit(d2c, DMsg("ExecuteLeasedCommand", c))
        \/ active = c /\ ready = c
        \/ timer[c] = "armed"
        \/ \E type \in {"CommandStarted", "CommandFailed"} :
               InTransit(c2d, Reply(type, c, c))

CommandConserved == \A c \in Calls : CommandHeld(c)

----------------------------------------------------------------------------
(* The client implements the abstract arbiter of its shell.                *)

Arbiter == INSTANCE ShellArbiter
             WITH Nobody <- NoLease, Idle <- NoCommand, User <- UserCommand,
                  holder <- active, line <- queue, shell <- pending

\* Leases are exclusive, queued and granted in order, only while the shell is
\* idle, and a leased command starts only under its own lease (lease.rs:13-35,
\* event_loop.rs:453-506).
ArbiterSpec == Arbiter!Spec

----------------------------------------------------------------------------
(* The strengthening that makes WaiterServed and TimedWhileStarted         *)
(* inductive.                                                              *)

\* A report travels under its own lease or under none.
Attributed == {m \in ClientMessage : m \in CommandReply => m.lease \in {m.exec, NoLease}}

ClientInv ==
    /\ ready # NoCommand => ready = active
    /\ pending \in Calls => active \in {pending, NoLease}

CallInv(c) ==
    /\ pc[c] = "idle" =>
          /\ ops[c] = NoOp /\ timer[c] = "off"
          /\ leaseRx[c] = "pending" /\ outcome[c] = "pending"
    /\ pc[c] \in {"acquire", "lease"} /\ leaseRx[c] = "pending" =>
          ops[c] # NoOp /\ ops[c].leaseTx
    /\ pc[c] \in {"acquire", "lease", "execute", "result"} /\ outcome[c] = "pending" =>
          ops[c] # NoOp /\ ops[c].resultTx
    /\ pc[c] \in {"acquire", "lease"} /\ ops[c] # NoOp => ops[c].cmd = "None"
    /\ timer[c] = "armed" <=> ops[c] # NoOp /\ ops[c].cmd = "Started"

IInv ==
    /\ TypeOK
    /\ c2d \in Seq(Attributed)
    /\ ClientInv
    /\ \A c \in Calls : CallInv(c)

\* The strengthening for HolderIsActive and ArbiterSpec: a lease is released by
\* its own call only, once, after its last use; it is announced only to a call
\* that asked; and the line is empty while the next request can be granted.
Announced(c) == \E m \in Range(c2d) : m.type = "ShellLeaseAcquired" /\ m.lease = c

LeaseInv(c) ==
    /\ InTransit(d2c, DMsg("ReleaseShellLease", c)) =>
          pc[c] \in {"cleanup", "returned", "aborted"}
    /\ pc[c] \in {"idle", "acquire"} =>
          /\ leaseRx[c] # "fired" /\ active # c /\ ~ Announced(c)
          /\ ~ InTransit(queue, c)
          /\ ~ InTransit(d2c, DMsg("AcquireShellLease", c))
    /\ pc[c] \in {"lease", "execute", "result"} /\ (leaseRx[c] = "fired" \/ Announced(c)) =>
          active = c

LineInv == phase \in {"select", "drain"} /\ CanGrant => queue = <<>>

OwnershipInv == (\A c \in Calls : LeaseInv(c)) /\ LineInv

\* The strengthening for RequestConserved, CommandConserved and
\* ReportReachesItsCall: what a call's oneshots say of its op, that nothing of its
\* command exists before it was sent, and that the client's session is there.
Past == {"cleanup", "returned", "aborted"}

\* A report that does not travel under the lease of its own command.
Stray(c) ==
    \E m \in Range(c2d) :
        /\ m.type \in {"CommandStarted", "CommandCompleted", "CommandFailed"}
        /\ m.exec = c
        /\ m.lease # c

GivenBack(c) == \E m \in Range(c2d) : m.type = "ShellLeaseReleased" /\ m.lease = c

\* What the map holds for a call, as far as its oneshots tell.
WaitInv(c) ==
    /\ pc[c] \in {"acquire", "lease"} /\ leaseRx[c] = "pending" =>
          ops[c].lease \in {"Requested", "Queued"}
    /\ leaseRx[c] # "pending" => ops[c] = NoOp \/ ~ ops[c].leaseTx
    /\ pc[c] \in {"execute", "result"} => leaseRx[c] = "fired"
    /\ pc[c] \in {"execute", "result"} /\ outcome[c] = "pending" =>
          ops[c].cmd \in {"Sent", "Started"}

\* What is under way for a call, as far as it has come.
CourseInv(c) ==
    /\ GivenBack(c) \/ Stray(c) => pc[c] \in Past
    /\ InTransit(d2c, DMsg("ExecuteLeasedCommand", c)) \/ ready = c \/ pending = c =>
          pc[c] \in {"result"} \cup Past

SessionInv ==
    /\ up => conn \in sessions
    /\ \A r \in sessions : r <= conn
    /\ cancelling <= conn
    /\ \A c \in Calls : relay[c] <= conn

ConservationInv ==
    /\ SessionInv
    /\ \A c \in Calls : WaitInv(c) /\ CourseInv(c) /\ RequestHeld(c) /\ CommandHeld(c)

----------------------------------------------------------------------------
(* Liveness.                                                               *)

\* tokio runs every task that can go on and sleeps end, and the client's loop
\* turns.  No command has to end or to fall quiet, nobody has to type, and no
\* link to break.
Fairness ==
    /\ \A c \in Calls : /\ WF_vars(CallStep(c) /\ UNCHANGED <<linkVars, clientVars>>)
                        /\ WF_vars(TimerStep(c) /\ UNCHANGED <<linkVars, clientVars>>)
    /\ WF_vars((DaemonHandle \/ AbortAgent) /\ UNCHANGED <<linkVars, clientVars>>)
    /\ WF_vars((StartStep \/ NotComplete) /\ UNCHANGED <<linkVars, daemonVars>>)
    /\ WF_vars(Wake /\ UNCHANGED <<linkVars, daemonVars>>)
    /\ SF_vars(HandleLeaseMessage /\ UNCHANGED <<linkVars, daemonVars>>)

FairSpec == Spec /\ Fairness

\* While nothing is cancelled, a bash call whose command runs ends, also when the
\* command never does, when the user interrupts it with Ctrl+C or when it goes
\* quiet, which the daemon is never told: the daemon's timer ends the call.  And a
\* call that still waits for the shell gets it and ends too, leases passing on,
\* unless some command keeps the shell for ever: a timed-out command is not
\* interrupted (lease.rs:64-76), and nothing bounds the wait for the grant.
EveryCallReturns ==
    /\ \A c \in Calls :
          ops[c] # NoOp /\ ops[c].cmd = "Started" ~> Over(c) \/ ~ Reachable(c)
    /\ []<>ShellFree =>
          \A c \in Calls : pc[c] = "acquire" ~> Over(c) \/ ~ Reachable(c)

\* "Leases have timeouts to prevent indefinite blocking" (website/src/content/
\* docs/architecture/client-daemon.md:22): a call that waits for the lease
\* does not wait forever on a connection that lives.
LeaseWaitEnds ==
    \A c \in Calls : pc[c] = "lease" ~> pc[c] # "lease" \/ ~ Reachable(c)
=============================================================================
