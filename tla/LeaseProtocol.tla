--------------------------- MODULE LeaseProtocol ---------------------------
(***************************************************************************)
(* The shell-lease part of the IPC between the daemon (codivd) and one     *)
(* terminal client (codiv): what travels on the connection, in both        *)
(* directions, and the two FIFO channels it travels on.                    *)
(*                                                                         *)
(* A bash tool call draws a fresh lease id and a fresh execution id        *)
(* (relay_manager.rs:112-113), so both are named by the call itself.       *)
(***************************************************************************)
EXTENDS Naturals, Sequences, Functions

CONSTANTS Calls,     \* the bash tool calls (one lease id and one execution id each)
          NoLease,   \* the empty lease id the client sends when it holds no lease
          MaxConns   \* bound: connections the client makes in a behaviour

ASSUME NoLeaseAssumption  == NoLease \notin Calls
ASSUME MaxConnsAssumption == MaxConns \in Nat \ {0}

VARIABLES d2c,       \* frames from the daemon to the client, oldest first
          c2d,       \* frames from the client to the daemon, oldest first
          conn,      \* the client id the daemon gave the client's latest connection
          up         \* the socket of that connection is open

----------------------------------------------------------------------------
(* Messages.  Commands, outputs and working directories are left out: no   *)
(* step of the protocol looks at them.  The daemon's reader tags what it   *)
(* receives with the client id of the connection, `from`.                  *)

DaemonMessage ==
    [type : {"AcquireShellLease", "ExecuteLeasedCommand",
             "ReleaseShellLease", "CancelLeasedCommand"}, lease : Calls]

LeaseReply ==
    [type : {"ShellLeaseAcquired", "ShellLeaseQueued", "ShellLeaseReleased"},
     lease : Calls, from : 1 .. MaxConns]

CommandReply ==
    [type  : {"CommandStarted", "CommandCompleted", "CommandFailed", "CommandCancelled"},
     lease : Calls \cup {NoLease},
     exec  : Calls, from : 1 .. MaxConns]

CancelRequest == [type : {"CancelRequest"}, from : 1 .. MaxConns]

ClientMessage == LeaseReply \cup CommandReply \cup CancelRequest

DMsg(type, c)     == [type |-> type, lease |-> c]
CMsg(type, l)     == [type |-> type, lease |-> l, from |-> conn]
Reply(type, l, e) == [type |-> type, lease |-> l, exec |-> e, from |-> conn]

----------------------------------------------------------------------------
(* Channels.                                                               *)

ToDaemon(frames) == c2d' = IF up THEN c2d \o frames ELSE c2d

InTransit(chan, m) == m \in Range(chan)
=============================================================================
