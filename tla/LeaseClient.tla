---------------------------- MODULE LeaseClient ----------------------------
(***************************************************************************)
(* The client's half of the shell-lease protocol: the terminal event loop  *)
(* (codiv/src/ui/terminal/event_loop.rs), which owns the bash co-process,  *)
(* and its lease handler (codiv/src/ui/terminal/daemon/lease.rs).          *)
(*                                                                         *)
(* The loop is one thread.  An iteration selects one event (a key, a batch *)
(* of daemon messages, PTY output or a tick), then checks whether the      *)
(* command on the shell has completed, then starts a leased command if the *)
(* shell is free; `phase` is where the iteration is.                       *)
(***************************************************************************)
EXTENDS LeaseProtocol

CONSTANTS NoCommand,    \* no command is on the shell / no command is ready
          UserCommand,  \* the command on the shell was typed by the user
          MaxCancels    \* bound: how often the user presses Esc

ASSUME CommandAssumption ==
    /\ NoCommand \notin Calls
    /\ UserCommand \notin Calls \cup {NoCommand}
    /\ MaxCancels \in Nat

VARIABLES active,    \* ShellRelay::active_lease
          ready,     \* ActiveLease::current_command of the active lease
          queue,     \* ShellRelay::pending_leases
          pending,   \* CommandState::pending_command
          phase,     \* where the loop iteration is
          cancels    \* Esc presses so far

clientVars == <<active, ready, queue, pending, phase, cancels>>

ClientInit ==
    /\ active  = NoLease
    /\ ready   = NoCommand
    /\ queue   = <<>>
    /\ pending = NoCommand
    /\ phase   = "select"
    /\ cancels = 0

ShellFree == pending = NoCommand

----------------------------------------------------------------------------
(* Daemon messages.  A batch is drained before the iteration goes on.      *)

Deliver(type) ==
    /\ up
    /\ phase \in {"select", "drain"}
    /\ d2c # <<>>
    /\ Head(d2c).type = type
    /\ d2c' = Tail(d2c)
    /\ phase' = "drain"

\* Mutants of CanGrant: one of its two conditions, or both, forgotten.
GrantWhenIdle == ShellFree
GrantAlways == TRUE

CanGrant == ShellFree /\ active = NoLease

HandleAcquire ==
    /\ Deliver("AcquireShellLease")
    /\ LET l == Head(d2c).lease IN
       IF CanGrant
       THEN /\ active' = l
            /\ ready' = NoCommand
            /\ ToDaemon(<<CMsg("ShellLeaseAcquired", l)>>)
            /\ UNCHANGED queue
       ELSE /\ queue' = Append(queue, l)
            /\ ToDaemon(<<CMsg("ShellLeaseQueued", l)>>)
            /\ UNCHANGED <<active, ready>>
    /\ UNCHANGED <<pending, cancels>>

\* Mutant of HandleExecute: a command that arrives while the shell is busy is lost.
ExecuteWhenFree ==
    /\ Deliver("ExecuteLeasedCommand")
    /\ ready' = IF active = Head(d2c).lease /\ ShellFree THEN active ELSE ready
    /\ UNCHANGED <<active, queue, pending, cancels, c2d>>

HandleExecute ==
    /\ Deliver("ExecuteLeasedCommand")
    /\ ready' = IF active = Head(d2c).lease THEN active ELSE ready
    /\ UNCHANGED <<active, queue, pending, cancels, c2d>>

\* Mutant of Promote: the promoted lease is not announced.
PromoteSilently(sent) ==
    /\ active' = IF ShellFree /\ queue # <<>> THEN Head(queue) ELSE NoLease
    /\ queue' = IF ShellFree /\ queue # <<>> THEN Tail(queue) ELSE queue
    /\ ready' = NoCommand
    /\ ToDaemon(sent)

\* promote_pending_lease_frames with no lease held: the head of the queue gets
\* the lease, unless a command is on the shell.
Promote(sent) ==
    IF ShellFree /\ queue # <<>>
    THEN /\ active' = Head(queue)
         /\ queue' = Tail(queue)
         /\ ready' = NoCommand
         /\ ToDaemon(sent \o <<CMsg("ShellLeaseAcquired", Head(queue))>>)
    ELSE /\ active' = NoLease
         /\ ready' = NoCommand
         /\ UNCHANGED queue
         /\ ToDaemon(sent)

\* Only the active lease can be released; a queued one is not withdrawn.
HandleRelease ==
    /\ Deliver("ReleaseShellLease")
    /\ LET l == Head(d2c).lease IN
       IF active = l
       THEN Promote(<<CMsg("ShellLeaseReleased", l)>>)
       ELSE UNCHANGED <<active, ready, queue, c2d>>
    /\ UNCHANGED <<pending, cancels>>

\* The reply is all the client does: the command stays on the shell.
HandleCancel ==
    /\ Deliver("CancelLeasedCommand")
    /\ LET l == Head(d2c).lease IN ToDaemon(<<Reply("CommandCancelled", l, l)>>)
    /\ UNCHANGED <<active, ready, queue, pending, cancels>>

----------------------------------------------------------------------------
(* The user, and the iterations in which nothing arrives.                  *)

Select ==
    /\ phase = "select"
    /\ phase' = "check"

\* Enter on a shell command, possible only while the shell is free.
StartUserCommand ==
    /\ Select
    /\ ShellFree
    /\ pending' = UserCommand
    /\ UNCHANGED <<active, ready, queue, cancels, d2c, c2d>>

\* Mutant of PressCtrlC: the iteration ends with the key.
CtrlCSkipsStart ==
    /\ phase = "select" /\ ~ ShellFree
    /\ pending' = NoCommand
    /\ UNCHANGED <<active, ready, queue, phase, cancels, d2c, c2d>>

\* Ctrl+C drops the command on the shell, whoever started it, and tells the
\* daemon nothing.
PressCtrlC ==
    /\ Select
    /\ ~ ShellFree
    /\ pending' = NoCommand
    /\ UNCHANGED <<active, ready, queue, cancels, d2c, c2d>>

\* Esc while an answer streams.
PressEsc ==
    /\ Select
    /\ up
    /\ cancels < MaxCancels
    /\ cancels' = cancels + 1
    /\ ToDaemon(<<[type |-> "CancelRequest", from |-> conn]>>)
    /\ UNCHANGED <<active, ready, queue, pending, d2c>>

\* PTY output or a tick.
Wake ==
    /\ Select
    /\ UNCHANGED <<active, ready, queue, pending, cancels, d2c, c2d>>

----------------------------------------------------------------------------
(* The rest of the iteration.                                              *)

Checking == phase \in {"drain", "check"} /\ phase' = "start"

\* No command on the shell, or it goes on.
NotComplete ==
    /\ Checking
    /\ UNCHANGED <<active, ready, queue, pending, cancels, d2c, c2d>>

\* The sentinel appeared.  A leased command reports under the lease that is
\* active now; a user command's CommandResult is no lease message.
Complete ==
    /\ ~ ShellFree
    /\ Checking
    /\ pending' = NoCommand
    /\ ToDaemon(IF pending = UserCommand THEN <<>>
                ELSE <<Reply("CommandCompleted", active, pending)>>)
    /\ UNCHANGED <<active, ready, queue, cancels, d2c>>

\* Five minutes without activity: interrupt it and tell the daemon nothing.
GiveUp ==
    /\ ~ ShellFree
    /\ Checking
    /\ pending' = NoCommand
    /\ UNCHANGED <<active, ready, queue, cancels, d2c, c2d>>

Starting == phase = "start" /\ phase' = "select"

\* The shell is busy: nothing can be promoted or started.
ShellBusy ==
    /\ Starting
    /\ ~ ShellFree
    /\ UNCHANGED <<active, ready, queue, pending, cancels, d2c, c2d>>

\* The shell is free and no command is ready: promote a queued lease.
PromoteNext ==
    /\ Starting
    /\ ShellFree
    /\ ready = NoCommand
    /\ IF active = NoLease THEN Promote(<<>>) ELSE UNCHANGED <<active, ready, queue, c2d>>
    /\ UNCHANGED <<pending, cancels, d2c>>

StartReady ==
    /\ Starting
    /\ ShellFree
    /\ ready # NoCommand
    /\ ready' = NoCommand
    /\ UNCHANGED <<active, queue, cancels, d2c>>

StartLeased ==
    /\ StartReady
    /\ pending' = ready
    /\ ToDaemon(<<Reply("CommandStarted", active, ready)>>)

StartFailed ==
    /\ StartReady
    /\ ToDaemon(<<Reply("CommandFailed", active, ready)>>)
    /\ UNCHANGED pending

----------------------------------------------------------------------------
HandleLeaseMessage == HandleAcquire \/ HandleExecute \/ HandleRelease \/ HandleCancel

UserStep == StartUserCommand \/ PressCtrlC \/ PressEsc

CommandOver == Complete \/ GiveUp

StartStep == ShellBusy \/ PromoteNext \/ StartLeased \/ StartFailed

ClientTypeOK ==
    /\ active  \in Calls \cup {NoLease}
    /\ ready   \in Calls \cup {NoCommand}
    /\ queue   \in Seq(Calls)
    /\ pending \in Calls \cup {NoCommand, UserCommand}
    /\ phase   \in {"select", "drain", "check", "start"}
    /\ cancels \in 0 .. MaxCancels
=============================================================================
