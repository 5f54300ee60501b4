---------------------------- MODULE ShellArbiter ----------------------------
(***************************************************************************)
(* What the client promises the daemon about its shell, without the        *)
(* protocol: requests for the shell are "queued and granted in order"      *)
(* (website/src/content/docs/architecture/client-daemon.md:22), at most    *)
(* one of them holds the shell, it is granted only while the shell is      *)
(* idle, and a command of a call enters the shell only while that call     *)
(* holds it.                                                               *)
(***************************************************************************)
EXTENDS Sequences

CONSTANTS Calls, Nobody, Idle, User

VARIABLES holder,   \* the call the shell is granted to, or Nobody
          line,     \* the calls that wait for it, in the order they asked
          shell     \* whose command runs: Idle, User or a call

vars == <<holder, line, shell>>

Init == holder = Nobody /\ line = <<>> /\ shell = Idle

\* The shell is granted at once only to a call that overtakes nobody.
GrantAtOnce(c) ==
    /\ holder = Nobody /\ line = <<>> /\ shell = Idle
    /\ holder' = c
    /\ UNCHANGED <<line, shell>>

Queue(c) ==
    /\ holder # Nobody \/ shell # Idle
    /\ line' = Append(line, c)
    /\ UNCHANGED <<holder, shell>>

GrantNext ==
    /\ holder = Nobody /\ line # <<>> /\ shell = Idle
    /\ holder' = Head(line)
    /\ line' = Tail(line)
    /\ UNCHANGED shell

\* The holder gives the shell back; when the shell is idle and somebody waits,
\* it passes to the next in line in the same step.
Release ==
    /\ holder # Nobody
    /\ IF shell = Idle /\ line # <<>>
       THEN holder' = Head(line) /\ line' = Tail(line)
       ELSE holder' = Nobody /\ UNCHANGED line
    /\ UNCHANGED shell

StartUser ==
    /\ shell = Idle
    /\ shell' = User
    /\ UNCHANGED <<holder, line>>

StartHolder ==
    /\ shell = Idle /\ holder # Nobody
    /\ shell' = holder
    /\ UNCHANGED <<holder, line>>

Stop ==
    /\ shell # Idle
    /\ shell' = Idle
    /\ UNCHANGED <<holder, line>>

Next ==
    \/ \E c \in Calls : GrantAtOnce(c) \/ Queue(c)
    \/ GrantNext \/ Release \/ StartUser \/ StartHolder \/ Stop

Spec == Init /\ [][Next]_vars
=============================================================================
