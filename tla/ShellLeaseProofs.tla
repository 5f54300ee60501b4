-------------------------- MODULE ShellLeaseProofs --------------------------
(***************************************************************************)
(* Proofs about the shell-lease protocol, for any set of calls and any     *)
(* number of connections and cancellations: timers, late requests, and     *)
(* that the shell has one owner (HolderIsActive, and the client implements *)
(* ShellArbiter).                                                          *)
(***************************************************************************)
EXTENDS ShellLease, TLAPS, SequenceTheorems

USE NoLeaseAssumption, MaxConnsAssumption, CommandAssumption

----------------------------------------------------------------------------
(* The channels.                                                           *)

\* Frames appended to the channel to the daemon keep its element type.
LEMMA ToDaemonType ==
    ASSUME NEW S, c2d \in Seq(S), NEW f \in Seq(S), ToDaemon(f)
    PROVE  c2d' \in Seq(S)
BY DEF ToDaemon

\* What the daemon puts on the wire is a daemon message.
LEMMA SendType ==
    ASSUME d2c \in Seq(DaemonMessage), NEW c \in Calls,
           NEW type \in {"AcquireShellLease", "ExecuteLeasedCommand",
                         "ReleaseShellLease", "CancelLeasedCommand"},
           SendToClient(c, type)
    PROVE  d2c' \in Seq(DaemonMessage)
<1>1. DMsg(type, c) \in DaemonMessage
  BY DEF DMsg, DaemonMessage
<1> QED
  BY <1>1 DEF SendToClient

\* A message the client sends about a lease is attributed trivially.
LEMMA LeaseReplyAttributed ==
    ASSUME conn \in 1 .. MaxConns, NEW c \in Calls,
           NEW type \in {"ShellLeaseAcquired", "ShellLeaseQueued", "ShellLeaseReleased"}
    PROVE  CMsg(type, c) \in Attributed
<1>1. CMsg(type, c) \in LeaseReply
  BY DEF CMsg, LeaseReply
<1>2. CMsg(type, c) \notin CommandReply
  BY DEF CMsg, CommandReply
<1> QED
  BY <1>1, <1>2 DEF Attributed, ClientMessage

\* A reply about a command travels under the command's own lease or none.
LEMMA CommandReplyAttributed ==
    ASSUME conn \in 1 .. MaxConns, NEW c \in Calls, NEW l \in {c, NoLease},
           NEW type \in {"CommandStarted", "CommandCompleted",
                         "CommandFailed", "CommandCancelled"}
    PROVE  Reply(type, l, c) \in Attributed
<1>1. Reply(type, l, c) \in CommandReply
  BY DEF Reply, CommandReply
<1> QED
  BY <1>1 DEF Attributed, ClientMessage, Reply

----------------------------------------------------------------------------
(* Ops.                                                                    *)

\* An op is a record that is told from the absent op by its lease phase, so it
\* stays an op when its fields change within their types.
LEMMA OpFields ==
    ASSUME NEW op \in Op
    PROVE  /\ op # NoOp
           /\ op.lease \in LeasePhase /\ op.cmd \in CommandPhase
           /\ op.resultTx \in BOOLEAN /\ op.leaseTx \in BOOLEAN
<1>1. op.lease \in LeasePhase
  BY DEF Op
<1>2. NoOp.lease \notin LeasePhase
  BY DEF NoOp, LeasePhase
<1> QED
  BY <1>1, <1>2 DEF Op

\* What the updates of an op leave of it.
LEMMA OpUpdates ==
    ASSUME NEW op \in Op, NEW p \in CommandPhase, NEW q \in LeasePhase
    PROVE  /\ /\ WithLease(op, q) \in Op
              /\ WithLease(op, q).cmd = op.cmd
              /\ WithLease(op, q).resultTx = op.resultTx
              /\ WithLease(op, q).leaseTx = op.leaseTx
           /\ /\ WithCmd(op, p) \in Op
              /\ WithCmd(op, p).cmd = p
              /\ WithCmd(op, p).resultTx = op.resultTx
              /\ WithCmd(op, p).leaseTx = op.leaseTx
           /\ /\ Granted(op) \in Op
              /\ Granted(op).cmd = op.cmd
              /\ Granted(op).resultTx = op.resultTx
           /\ /\ Resolved(op, p) \in Op
              /\ Resolved(op, p).cmd = p
              /\ Resolved(op, p).leaseTx = op.leaseTx
BY DEF Op, LeasePhase, WithLease, WithCmd, Granted, Resolved

----------------------------------------------------------------------------
(* The steps of the daemon.                                                *)

\* What a daemon step has to keep: the rest of IInv is about the client.
DaemonInv ==
    /\ d2c \in Seq(DaemonMessage)
    /\ c2d \in Seq(Attributed)
    /\ DaemonTypeOK
    /\ \A c \in Calls : CallInv(c)

\* Emptying a session's map resolves every call that waits on it.
LEMMA CancelAllInv ==
    ASSUME DaemonInv, NEW r \in sessions, CancelAll(r), UNCHANGED pc
    PROVE  /\ ops' \in [Calls -> Op \cup {NoOp}]
           /\ leaseRx' \in [Calls -> {"pending", "fired", "dropped"}]
           /\ outcome' \in [Calls -> Outcome \cup {"pending"}]
           /\ timer' \in [Calls -> {"off", "armed", "firing"}]
           /\ \A c \in Calls : CallInv(c)'
<1> USE DEF DaemonInv, DaemonTypeOK
<1> DEFINE hit(c) == relay[c] = r /\ ops[c] # NoOp
<1>1. /\ ops' \in [Calls -> Op \cup {NoOp}]
      /\ leaseRx' \in [Calls -> {"pending", "fired", "dropped"}]
      /\ outcome' \in [Calls -> Outcome \cup {"pending"}]
      /\ timer' \in [Calls -> {"off", "armed", "firing"}]
  BY DEF CancelAll, Outcome
<1>2. ASSUME NEW c \in Calls
      PROVE  CallInv(c)'
  <2>1. CallInv(c)
    OBVIOUS
  <2>2. /\ outcome'[c] = IF hit(c) /\ ops[c].resultTx THEN "Cancelled" ELSE outcome[c]
        /\ leaseRx'[c] = IF hit(c) /\ ops[c].leaseTx THEN "dropped" ELSE leaseRx[c]
        /\ timer'[c] = IF hit(c) THEN "off" ELSE timer[c]
        /\ ops'[c] = IF hit(c) THEN NoOp ELSE ops[c]
    BY DEF CancelAll
  <2> QED
    BY <2>1, <2>2 DEF CallInv
<1> QED
  BY <1>1, <1>2

\* The steps of calls and their timers keep the invariant.
LEMMA CallStepInv ==
    ASSUME DaemonInv, NEW c \in Calls,
           \/ CallStep(c) \/ Abort(c) \/ TimerStep(c)
           \/ \E r \in sessions \cup {cancelling} : Register(c, r)
    PROVE  DaemonInv'
<1> USE DEF DaemonInv, DaemonTypeOK
<1>1. CASE SendAcquire(c)
  <2>1. d2c' \in Seq(DaemonMessage)
    BY <1>1, SendType DEF SendAcquire
  <2>2. /\ pc[c] = "acquire"
        /\ pc' \in {[pc EXCEPT ![c] = "lease"], [pc EXCEPT ![c] = "returned"]}
        /\ UNCHANGED <<ops, leaseRx, outcome, timer, relay, doomed, sessions, cancelling, c2d>>
    BY <1>1 DEF SendAcquire, Goto
  <2>3. pc' \in [Calls -> PC]
    BY <2>2 DEF PC
  <2>4. \A d \in Calls : CallInv(d)'
    BY <2>2 DEF CallInv
  <2> QED
    BY <2>1, <2>2, <2>3, <2>4
<1>2. CASE LeaseGranted(c)
  <2> DEFINE new == WithCmd(ops[c], "Sent")
  <2>1. ops[c] # NoOp => /\ new \in Op /\ new # NoOp
                         /\ new.cmd = "Sent" /\ new.resultTx = ops[c].resultTx
    BY OpFields, OpUpdates DEF LeasePhase, CommandPhase
  <2>2. ops' = IF ops[c] = NoOp THEN ops ELSE [ops EXCEPT ![c] = new]
    BY <1>2 DEF LeaseGranted
  <2>3. pc' = [pc EXCEPT ![c] = "execute"] /\ pc[c] = "lease" /\ leaseRx[c] = "fired"
    BY <1>2 DEF LeaseGranted, Goto
  <2>4. UNCHANGED <<leaseRx, outcome, timer, relay, doomed, sessions, cancelling, d2c, c2d>>
    BY <1>2 DEF LeaseGranted
  <2> HIDE DEF new
  <2>5. DaemonTypeOK'
    BY <2>1, <2>2, <2>3, <2>4 DEF PC
  <2>6. CallInv(c)'
    BY <2>1, <2>2, <2>3, <2>4 DEF CallInv
  <2>7. ASSUME NEW d \in Calls, d # c PROVE CallInv(d)'
    BY <2>2, <2>3, <2>4, <2>7 DEF CallInv
  <2> QED
    BY <2>4, <2>5, <2>6, <2>7
<1>3. CASE LeaseCancelled(c)
  BY <1>3 DEF LeaseCancelled, Goto, PC, CallInv
<1>4. CASE SendExecute(c)
  <2>1. d2c' \in Seq(DaemonMessage)
    BY <1>4, SendType DEF SendExecute
  <2>2. /\ pc[c] = "execute"
        /\ pc' \in {[pc EXCEPT ![c] = "result"], [pc EXCEPT ![c] = "returned"]}
        /\ UNCHANGED <<ops, leaseRx, outcome, timer, relay, doomed, sessions, cancelling, c2d>>
    BY <1>4 DEF SendExecute, Goto
  <2>3. pc' \in [Calls -> PC]
    BY <2>2 DEF PC
  <2>4. \A d \in Calls : CallInv(d)'
    BY <2>2 DEF CallInv
  <2> QED
    BY <2>1, <2>2, <2>3, <2>4
<1>5. CASE SendRelease(c)
  <2>1. d2c' \in Seq(DaemonMessage)
    BY <1>5, SendType DEF SendRelease
  <2> QED
    BY <1>5, <2>1 DEF SendRelease, Goto, PC, CallInv
<1>6. CASE CleanUp(c)
  BY <1>6 DEF CleanUp, Goto, PC, CallInv
<1>7. CASE Abort(c)
  BY <1>7 DEF Abort, Goto, PC, CallInv, Live
<1>8. CASE TimerExpire(c)
  <2> DEFINE new == Resolved(ops[c], "TimedOut")
  <2>1. /\ ops[c] # NoOp /\ ops[c] \in Op
        /\ new \in Op /\ new # NoOp /\ new.cmd = "TimedOut" /\ new.leaseTx = ops[c].leaseTx
    BY <1>8, OpFields, OpUpdates DEF TimerExpire, LeasePhase, CommandPhase
  <2>2. /\ ops' = [ops EXCEPT ![c] = new]
        /\ outcome' = IF ops[c].resultTx THEN [outcome EXCEPT ![c] = "TimedOut"] ELSE outcome
        /\ timer' = [timer EXCEPT ![c] = "firing"]
        /\ ops[c].cmd = "Started"
    BY <1>8 DEF TimerExpire
  <2>3. UNCHANGED <<pc, leaseRx, relay, doomed, sessions, cancelling, d2c, c2d>>
    BY <1>8 DEF TimerExpire
  <2> HIDE DEF new
  <2>4. DaemonTypeOK'
    BY <2>1, <2>2, <2>3 DEF Outcome
  <2>5. CallInv(c)'
    BY <2>1, <2>2, <2>3 DEF CallInv
  <2>6. ASSUME NEW d \in Calls, d # c PROVE CallInv(d)'
    BY <2>2, <2>3, <2>6 DEF CallInv
  <2> QED
    BY <2>3, <2>4, <2>5, <2>6
<1>9. CASE SendCancel(c)
  <2>1. d2c' \in Seq(DaemonMessage)
    BY <1>9, SendType DEF SendCancel
  <2> QED
    BY <1>9, <2>1 DEF SendCancel, CallInv
<1>10. ASSUME NEW r \in sessions \cup {cancelling}, Register(c, r)
       PROVE  DaemonInv'
  <2>1. FreshOp \in Op /\ FreshOp.cmd = "None" /\ FreshOp.leaseTx /\ FreshOp.resultTx
    BY DEF FreshOp, Op, LeasePhase, CommandPhase
  <2> QED
    BY <1>10, <2>1, OpFields DEF Register, Goto, PC, CallInv
<1> QED
  BY <1>1, <1>2, <1>3, <1>4, <1>5, <1>6, <1>7, <1>8, <1>9, <1>10
  DEF CallStep, TimerStep

\* The daemon's handling of a message keeps it.
LEMMA DaemonHandleInv ==
    ASSUME DaemonInv, DaemonHandle
    PROVE  DaemonInv'
<1> USE DEF DaemonTypeOK
<1>a. DaemonTypeOK
  BY DEF DaemonInv
<1>b. \A c \in Calls : CallInv(c)
  BY DEF DaemonInv
<1>1. ASSUME NEW type, Receive(type)
      PROVE  Head(c2d) \in Attributed /\ c2d' \in Seq(Attributed)
  BY <1>1 DEF Receive, DaemonInv
<1>0. PICK l : l = Head(c2d).lease
  OBVIOUS
<1>2. CASE OnLeaseAcquired
  <2>0. PICK new : new = Granted(ops[l])
    OBVIOUS
  <2>1. c2d' \in Seq(Attributed)
    BY <1>1, <1>2 DEF OnLeaseAcquired
  <2>2. HasOp(l) => /\ ops[l] \in Op /\ new \in Op /\ new # NoOp
                    /\ new.cmd = ops[l].cmd /\ new.resultTx = ops[l].resultTx
    BY <1>a, <2>0, OpFields, OpUpdates DEF HasOp, LeasePhase, CommandPhase
  <2>3. \/ /\ HasOp(l) /\ ops' = [ops EXCEPT ![l] = new]
           /\ leaseRx' = IF ops[l].leaseTx THEN [leaseRx EXCEPT ![l] = "fired"] ELSE leaseRx
        \/ UNCHANGED <<ops, leaseRx>>
    BY <1>0, <2>0, <1>2 DEF OnLeaseAcquired
  <2>4. UNCHANGED <<pc, outcome, timer, relay, doomed, sessions, cancelling, d2c>>
    BY <1>2 DEF OnLeaseAcquired
  <2>5. DaemonTypeOK'
    BY <1>a, <2>2, <2>3, <2>4 DEF HasOp
  <2>6. ASSUME NEW d \in Calls PROVE CallInv(d)'
    BY <1>a, <1>b, <2>2, <2>3, <2>4 DEF CallInv, HasOp
  <2> QED
    BY <2>1, <2>4, <2>5, <2>6 DEF DaemonInv
<1>3. CASE OnLeaseQueued
  <2>0. PICK new : new = WithLease(ops[l], "Queued")
    OBVIOUS
  <2>1. c2d' \in Seq(Attributed)
    BY <1>1, <1>3 DEF OnLeaseQueued
  <2>2. HasOp(l) => /\ new \in Op /\ new # NoOp /\ new.cmd = ops[l].cmd
                    /\ new.resultTx = ops[l].resultTx /\ new.leaseTx = ops[l].leaseTx
    BY <1>a, <2>0, OpFields, OpUpdates DEF HasOp, LeasePhase, CommandPhase
  <2>3. (HasOp(l) /\ ops' = [ops EXCEPT ![l] = new]) \/ ops' = ops
    BY <1>0, <2>0, <1>3 DEF OnLeaseQueued
  <2>4. UNCHANGED <<pc, leaseRx, outcome, timer, relay, doomed, sessions, cancelling, d2c>>
    BY <1>3 DEF OnLeaseQueued
  <2>5. DaemonTypeOK'
    BY <1>a, <2>2, <2>3, <2>4 DEF HasOp
  <2>6. ASSUME NEW d \in Calls PROVE CallInv(d)'
    BY <1>a, <1>b, <2>2, <2>3, <2>4 DEF CallInv, HasOp
  <2> QED
    BY <2>1, <2>4, <2>5, <2>6 DEF DaemonInv
<1>4. CASE OnLeaseReleased
  <2>0. PICK new : new = WithLease(ops[l], "Released")
    OBVIOUS
  <2>1. c2d' \in Seq(Attributed)
    BY <1>1, <1>4 DEF OnLeaseReleased
  <2>2. HasOp(l) => /\ new \in Op /\ new # NoOp /\ new.cmd = ops[l].cmd
                    /\ new.resultTx = ops[l].resultTx /\ new.leaseTx = ops[l].leaseTx
    BY <1>a, <2>0, OpFields, OpUpdates DEF HasOp, LeasePhase, CommandPhase
  <2>3. (HasOp(l) /\ ops' = [ops EXCEPT ![l] = new]) \/ ops' = ops
    BY <1>0, <2>0, <1>4 DEF OnLeaseReleased
  <2>4. UNCHANGED <<pc, leaseRx, outcome, timer, relay, doomed, sessions, cancelling, d2c>>
    BY <1>4 DEF OnLeaseReleased
  <2>5. DaemonTypeOK'
    BY <1>a, <2>2, <2>3, <2>4 DEF HasOp
  <2>6. ASSUME NEW d \in Calls PROVE CallInv(d)'
    BY <1>a, <1>b, <2>2, <2>3, <2>4 DEF CallInv, HasOp
  <2> QED
    BY <2>1, <2>4, <2>5, <2>6 DEF DaemonInv
<1>5. CASE OnCommandStarted
  <2>0. PICK new : new = WithCmd(ops[l], "Started")
    OBVIOUS
  <2>1. c2d' \in Seq(Attributed)
    BY <1>1, <1>5 DEF OnCommandStarted
  <2>2. HasOp(l) => /\ new \in Op /\ new # NoOp /\ new.cmd = "Started"
                    /\ new.resultTx = ops[l].resultTx /\ new.leaseTx = ops[l].leaseTx
    BY <1>a, <2>0, OpFields, OpUpdates DEF HasOp, LeasePhase, CommandPhase
  <2>3. \/ /\ HasOp(l) /\ ops[l].cmd = "Sent"
           /\ ops' = [ops EXCEPT ![l] = new]
           /\ timer' = [timer EXCEPT ![l] = "armed"]
        \/ UNCHANGED <<ops, timer>>
    BY <1>0, <2>0, <1>5 DEF OnCommandStarted
  <2>4. UNCHANGED <<pc, leaseRx, outcome, relay, doomed, sessions, cancelling, d2c>>
    BY <1>5 DEF OnCommandStarted
  <2>5. DaemonTypeOK'
    BY <1>a, <2>2, <2>3, <2>4 DEF HasOp
  <2>6. ASSUME NEW d \in Calls PROVE CallInv(d)'
    BY <1>a, <1>b, <2>2, <2>3, <2>4 DEF CallInv, HasOp
  <2> QED
    BY <2>1, <2>4, <2>5, <2>6 DEF DaemonInv
<1>6. ASSUME NEW over \in {"Completed", "Failed", "Cancelled"},
             NEW type \in {"CommandCompleted", "CommandFailed", "CommandCancelled"},
             Resolve(type, over)
      PROVE  DaemonInv'
  <2>0. PICK new : new = Resolved(ops[l], over)
    OBVIOUS
  <2>1. Head(c2d) \in Attributed /\ c2d' \in Seq(Attributed)
    BY <1>1, <1>6 DEF Resolve
  \* A report that names an op's lease names its execution.
  <2>2. l \in Calls => Head(c2d).exec = l
    <3>1. Head(c2d).type = type
      BY <1>6 DEF Resolve, Receive
    <3>2. Head(c2d) \in CommandReply
      BY <2>1, <3>1 DEF Attributed, ClientMessage, LeaseReply, CommandReply, CancelRequest
    <3> QED
      BY <1>0, <2>1, <3>2, NoLeaseAssumption DEF Attributed
  <2>3. HasOp(l) => /\ ops[l] \in Op /\ new \in Op /\ new # NoOp
                    /\ new.cmd = over /\ new.leaseTx = ops[l].leaseTx
    BY <1>a, <2>0, OpFields, OpUpdates DEF HasOp, LeasePhase, CommandPhase
  <2>4. \/ /\ HasOp(l) /\ ops[l].cmd \notin TerminalCommand \cup {"None"}
           /\ timer' = [timer EXCEPT ![l] = "off"]
           /\ ops' = [ops EXCEPT ![l] = new]
           /\ outcome' = IF ops[l].resultTx THEN [outcome EXCEPT ![l] = over] ELSE outcome
        \/ /\ HasOp(l) /\ ops[l].cmd \in TerminalCommand \cup {"None"}
           /\ timer' = [timer EXCEPT ![l] = "off"]
           /\ UNCHANGED <<ops, outcome>>
        \/ UNCHANGED <<ops, outcome, timer>>
    BY <1>0, <2>0, <1>6, <2>2 DEF Resolve, HasOp
  <2>5. UNCHANGED <<pc, leaseRx, relay, doomed, sessions, cancelling, d2c>>
    BY <1>6 DEF Resolve
  <2>6. DaemonTypeOK'
    BY <1>a, <2>3, <2>4, <2>5 DEF HasOp, Outcome
  <2>7. ASSUME NEW d \in Calls PROVE CallInv(d)'
    BY <1>a, <1>b, <2>3, <2>4, <2>5 DEF CallInv, HasOp, TerminalCommand
  <2> QED
    BY <2>1, <2>5, <2>6, <2>7 DEF DaemonInv
<1>7. CASE HandleCancelRequest
  <2>1. c2d' \in Seq(Attributed)
    BY <1>1, <1>7 DEF HandleCancelRequest
  <2>2. PICK r : r = Head(c2d).from
    OBVIOUS
  <2>3. UNCHANGED <<pc, relay, doomed, sessions, d2c>>
    BY <1>7 DEF HandleCancelRequest
  <2>4. CASE r \in sessions
    <3>1. CancelAll(r) /\ cancelling' = r
      BY <1>7, <2>2, <2>4 DEF HandleCancelRequest
    <3>2. /\ ops' \in [Calls -> Op \cup {NoOp}]
          /\ leaseRx' \in [Calls -> {"pending", "fired", "dropped"}]
          /\ outcome' \in [Calls -> Outcome \cup {"pending"}]
          /\ timer' \in [Calls -> {"off", "armed", "firing"}]
          /\ \A c \in Calls : CallInv(c)'
      BY <2>3, <2>4, <3>1, CancelAllInv
    <3>3. DaemonTypeOK'
      BY <1>a, <2>3, <2>4, <3>1, <3>2
    <3> QED
      BY <2>1, <2>3, <3>2, <3>3 DEF DaemonInv
  <2>5. CASE r \notin sessions
    <3>1. UNCHANGED <<ops, leaseRx, outcome, timer, cancelling>>
      BY <1>7, <2>2, <2>5 DEF HandleCancelRequest
    <3> QED
      BY <1>a, <1>b, <2>1, <2>3, <3>1 DEF CallInv, DaemonInv
  <2> QED
    BY <2>4, <2>5
<1> QED
  BY <1>2, <1>3, <1>4, <1>5, <1>6, <1>7
  DEF DaemonHandle, OnCommandCompleted, OnCommandFailed, OnCommandCancelled

\* Every step of the daemon keeps it.
LEMMA DaemonStepInv ==
    ASSUME DaemonInv, DaemonStep
    PROVE  DaemonInv'
<1>1. ASSUME NEW r \in sessions, CleanupStale(r)
      PROVE  DaemonInv'
  <2>1. UNCHANGED <<pc, relay, doomed, d2c, c2d>>
        /\ sessions' = sessions \ {r} /\ cancelling' = r /\ CancelAll(r)
    BY <1>1 DEF CleanupStale
  <2>2. /\ ops' \in [Calls -> Op \cup {NoOp}]
        /\ leaseRx' \in [Calls -> {"pending", "fired", "dropped"}]
        /\ outcome' \in [Calls -> Outcome \cup {"pending"}]
        /\ timer' \in [Calls -> {"off", "armed", "firing"}]
        /\ \A c \in Calls : CallInv(c)'
    BY <2>1, CancelAllInv
  <2>3. DaemonTypeOK'
    BY <2>1, <2>2 DEF DaemonInv, DaemonTypeOK
  <2> QED
    BY <2>1, <2>2, <2>3 DEF DaemonInv
<1>2. CASE AbortAgent
  BY <1>2 DEF AbortAgent, DaemonInv, DaemonTypeOK, CallInv
<1> QED
  BY <1>1, <1>2, CallStepInv, DaemonHandleInv DEF DaemonStep

----------------------------------------------------------------------------
(* The steps of the client.                                                *)

\* Every step of the client keeps it.
LEMMA ClientStepInv ==
    ASSUME IInv, ClientStep
    PROVE  /\ d2c' \in Seq(DaemonMessage)
           /\ c2d' \in Seq(Attributed)
           /\ ClientTypeOK'
           /\ ClientInv'
<1>a. /\ d2c \in Seq(DaemonMessage) /\ c2d \in Seq(Attributed)
      /\ conn \in 1 .. MaxConns /\ ClientTypeOK /\ ClientInv
  BY DEF IInv, TypeOK
<1>b. ASSUME NEW type, Deliver(type)
      PROVE  /\ d2c' \in Seq(DaemonMessage)
             /\ Head(d2c) \in DaemonMessage /\ Head(d2c).lease \in Calls
             /\ phase' = "drain"
  <2>1. d2c # <<>> /\ d2c' = Tail(d2c) /\ phase' = "drain"
    BY <1>b DEF Deliver
  <2>2. Head(d2c) \in DaemonMessage /\ Tail(d2c) \in Seq(DaemonMessage)
    BY <1>a, <2>1
  <2>3. Head(d2c).lease \in Calls
    BY <2>2 DEF DaemonMessage
  <2> QED
    BY <2>1, <2>2, <2>3
<1>c. ASSUME NEW f \in Seq(Attributed), ToDaemon(f)
      PROVE  c2d' \in Seq(Attributed)
  BY <1>a, <1>c, ToDaemonType
<1>e. ASSUME NEW m \in Attributed, ToDaemon(<<m>>)
      PROVE  c2d' \in Seq(Attributed)
  <2>1. <<m>> \in Seq(Attributed)
    OBVIOUS
  <2> QED
    BY <1>c, <1>e, <2>1
<1>1. CASE HandleAcquire
  <2>1. PICK l : l = Head(d2c).lease
    OBVIOUS
  <2>2. /\ d2c' \in Seq(DaemonMessage) /\ l \in Calls /\ phase' = "drain"
        /\ UNCHANGED <<pending, cancels>>
    BY <1>1, <1>b, <2>1 DEF HandleAcquire
  <2>3. CASE CanGrant
    <3>1. /\ active' = l /\ ready' = NoCommand /\ UNCHANGED queue
          /\ ToDaemon(<<CMsg("ShellLeaseAcquired", l)>>)
      BY <1>1, <2>1, <2>3 DEF HandleAcquire
    <3>2. c2d' \in Seq(Attributed)
      BY <1>a, <1>e, <2>2, <3>1, LeaseReplyAttributed
    <3> QED
      BY <1>a, <2>2, <2>3, <3>1, <3>2 DEF ClientTypeOK, ClientInv, CanGrant, ShellFree
  <2>4. CASE ~ CanGrant
    <3>1. /\ queue' = Append(queue, l) /\ UNCHANGED <<active, ready>>
          /\ ToDaemon(<<CMsg("ShellLeaseQueued", l)>>)
      BY <1>1, <2>1, <2>4 DEF HandleAcquire
    <3>2. c2d' \in Seq(Attributed)
      BY <1>a, <1>e, <2>2, <3>1, LeaseReplyAttributed
    <3> QED
      BY <1>a, <2>2, <3>1, <3>2 DEF ClientTypeOK, ClientInv
  <2> QED
    BY <2>3, <2>4
<1>2. CASE HandleExecute
  <2>1. d2c' \in Seq(DaemonMessage) /\ Head(d2c).lease \in Calls /\ phase' = "drain"
    BY <1>2, <1>b DEF HandleExecute
  <2> QED
    BY <1>2, <1>a, <2>1 DEF HandleExecute, ClientTypeOK, ClientInv
\* Promotion, after a release and at the end of an iteration.
<1>d. ASSUME NEW f \in Seq(Attributed), Promote(f), UNCHANGED <<pending, cancels>>
      PROVE  /\ c2d' \in Seq(Attributed) /\ ClientInv'
             /\ active' \in Calls \cup {NoLease} /\ ready' = NoCommand /\ queue' \in Seq(Calls)
  <2>1. CASE ShellFree /\ queue # <<>>
    <3>1. /\ active' = Head(queue) /\ queue' = Tail(queue) /\ ready' = NoCommand
          /\ ToDaemon(f \o <<CMsg("ShellLeaseAcquired", Head(queue))>>)
      BY <1>d, <2>1 DEF Promote
    <3>2. Head(queue) \in Calls /\ Tail(queue) \in Seq(Calls)
      BY <1>a, <2>1 DEF ClientTypeOK
    <3>3. f \o <<CMsg("ShellLeaseAcquired", Head(queue))>> \in Seq(Attributed)
      BY <1>a, <3>2, LeaseReplyAttributed
    <3>4. c2d' \in Seq(Attributed)
      BY <1>c, <3>1, <3>3
    <3> QED
      BY <1>d, <2>1, <3>1, <3>2, <3>4 DEF ClientInv, ShellFree
  <2>2. CASE ~ (ShellFree /\ queue # <<>>)
    <3>1. /\ active' = NoLease /\ ready' = NoCommand /\ UNCHANGED queue
          /\ ToDaemon(f)
      BY <1>d, <2>2 DEF Promote
    <3>2. c2d' \in Seq(Attributed)
      BY <1>c, <3>1
    <3> QED
      BY <1>a, <1>d, <3>1, <3>2 DEF ClientInv, ClientTypeOK
  <2> QED
    BY <2>1, <2>2
<1>3. CASE HandleRelease
  <2>1. PICK l : l = Head(d2c).lease
    OBVIOUS
  <2>2. /\ d2c' \in Seq(DaemonMessage) /\ l \in Calls /\ phase' = "drain"
        /\ UNCHANGED <<pending, cancels>>
    BY <1>3, <1>b, <2>1 DEF HandleRelease
  <2>3. CASE active = l
    <3>1. Promote(<<CMsg("ShellLeaseReleased", l)>>)
      BY <1>3, <2>1, <2>3 DEF HandleRelease
    <3>2. <<CMsg("ShellLeaseReleased", l)>> \in Seq(Attributed)
      BY <1>a, <2>2, LeaseReplyAttributed
    <3> QED
      BY <1>a, <1>d, <2>2, <3>1, <3>2 DEF ClientTypeOK
  <2>4. CASE active # l
    BY <1>3, <1>a, <2>1, <2>2, <2>4 DEF HandleRelease, ClientTypeOK, ClientInv
  <2> QED
    BY <2>3, <2>4
<1>4. CASE HandleCancel
  <2>1. PICK l : l = Head(d2c).lease
    OBVIOUS
  <2>2. /\ d2c' \in Seq(DaemonMessage) /\ l \in Calls /\ phase' = "drain"
        /\ UNCHANGED <<active, ready, queue, pending, cancels>>
        /\ ToDaemon(<<Reply("CommandCancelled", l, l)>>)
    BY <1>4, <1>b, <2>1 DEF HandleCancel
  <2>3. c2d' \in Seq(Attributed)
    BY <1>a, <1>e, <2>2, CommandReplyAttributed
  <2> QED
    BY <1>a, <2>2, <2>3 DEF ClientTypeOK, ClientInv
<1>5. CASE StartUserCommand \/ PressCtrlC \/ Wake \/ NotComplete \/ GiveUp \/ ShellBusy
  BY <1>5, <1>a
  DEF StartUserCommand, PressCtrlC, Wake, NotComplete, GiveUp, ShellBusy,
      Select, Checking, Starting, ClientTypeOK, ClientInv
<1>6. CASE PressEsc
  <2>1. [type |-> "CancelRequest", from |-> conn] \in Attributed
    BY DEF Attributed, ClientMessage, CancelRequest, CommandReply, IInv, TypeOK
  <2>2. c2d' \in Seq(Attributed)
    BY <1>6, <1>e, <2>1 DEF PressEsc
  <2> QED
    BY <1>6, <1>a, <2>2 DEF PressEsc, Select, ClientTypeOK, ClientInv
<1>7. CASE Complete
  <2>1. CASE pending = UserCommand
    <3>1. c2d' \in Seq(Attributed)
      <4>1. ToDaemon(<<>>)
        BY <1>7, <2>1 DEF Complete
      <4>2. <<>> \in Seq(Attributed)
        OBVIOUS
      <4> QED
        BY <1>c, <4>1, <4>2
    <3> QED
      BY <1>7, <1>a, <3>1 DEF Complete, Checking, ClientTypeOK, ClientInv
  <2>2. CASE pending # UserCommand
    <3>1. pending \in Calls /\ active \in {pending, NoLease}
      BY <1>7, <1>a, <2>2 DEF Complete, ShellFree, ClientTypeOK, ClientInv
    <3>2. c2d' \in Seq(Attributed)
      <4>1. ToDaemon(<<Reply("CommandCompleted", active, pending)>>)
        BY <1>7, <2>2 DEF Complete
      <4> QED
        BY <1>a, <1>e, <3>1, <4>1, CommandReplyAttributed
    <3> QED
      BY <1>7, <1>a, <3>2 DEF Complete, Checking, ClientTypeOK, ClientInv
  <2> QED
    BY <2>1, <2>2
<1>8. CASE PromoteNext
  <2>1. UNCHANGED <<pending, cancels, d2c>> /\ phase' = "select"
    BY <1>8 DEF PromoteNext, Starting
  <2>2. CASE active = NoLease
    <3>1. Promote(<<>>)
      BY <1>8, <2>2 DEF PromoteNext
    <3>2. <<>> \in Seq(Attributed)
      OBVIOUS
    <3> QED
      BY <1>a, <1>d, <2>1, <3>1, <3>2 DEF ClientTypeOK
  <2>3. CASE active # NoLease
    BY <1>8, <1>a, <2>1, <2>3 DEF PromoteNext, ClientTypeOK, ClientInv
  <2> QED
    BY <2>2, <2>3
<1>9. CASE StartLeased \/ StartFailed
  <2>1. /\ ready \in Calls /\ active = ready /\ ready' = NoCommand /\ phase' = "select"
        /\ UNCHANGED <<active, queue, cancels, d2c>> /\ pending = NoCommand
        /\ pending' \in {ready, NoCommand}
        /\ \E type \in {"CommandStarted", "CommandFailed"} :
               ToDaemon(<<Reply(type, active, ready)>>)
    BY <1>9, <1>a
    DEF StartLeased, StartFailed, StartReady, Starting, ShellFree, ClientTypeOK, ClientInv
  <2>2. c2d' \in Seq(Attributed)
    <3>1. PICK type \in {"CommandStarted", "CommandFailed"} :
             ToDaemon(<<Reply(type, active, ready)>>)
      BY <2>1
    <3> QED
      BY <1>a, <1>e, <2>1, <3>1, CommandReplyAttributed
  <2> QED
    BY <1>a, <2>1, <2>2 DEF ClientTypeOK, ClientInv
<1> QED
  BY <1>1, <1>2, <1>3, <1>4, <1>5, <1>6, <1>7, <1>8, <1>9
  DEF ClientStep, HandleLeaseMessage, UserStep, CommandOver, StartStep

----------------------------------------------------------------------------
(* The steps of the connection.                                            *)

\* So does what befalls the connection.
LEMMA LinkStepInv ==
    ASSUME IInv, Disconnect \/ DaemonStop \/ Reconnect
    PROVE  IInv'
<1>a. /\ d2c \in Seq(DaemonMessage) /\ c2d \in Seq(Attributed)
      /\ conn \in 1 .. MaxConns /\ up \in BOOLEAN
      /\ c2d \in Seq(ClientMessage)
      /\ DaemonTypeOK /\ ClientTypeOK /\ ClientInv
      /\ \A c \in Calls : CallInv(c)
  BY DEF IInv, TypeOK
<1>1. CASE Disconnect
  <2>1. /\ up' = FALSE /\ d2c' = <<>>
        /\ UNCHANGED <<conn, daemonVars, clientVars>>
    BY <1>1 DEF Disconnect
  <2>2. c2d' \in Seq(Attributed) /\ c2d' \in Seq(ClientMessage)
    <3>1. PICK n \in 0 .. Len(c2d) : c2d' = SubSeq(c2d, 1, n)
      BY <1>1 DEF Disconnect
    <3>2. ASSUME NEW S, c2d \in Seq(S)
          PROVE  SubSeq(c2d, 1, n) \in Seq(S)
      BY <3>2
    <3> QED
      BY <1>a, <3>1, <3>2
  <2>3. d2c' \in Seq(DaemonMessage)
    BY <2>1
  <2>4. DaemonTypeOK' /\ \A c \in Calls : CallInv(c)'
    BY <1>a, <2>1 DEF DaemonTypeOK, daemonVars, CallInv
  <2>5. ClientTypeOK' /\ ClientInv'
    BY <1>a, <2>1 DEF ClientTypeOK, ClientInv, clientVars
  <2> QED
    BY <1>a, <2>1, <2>2, <2>3, <2>4, <2>5 DEF IInv, TypeOK
<1>2. CASE DaemonStop
  <2>1. /\ up' = FALSE /\ d2c' = <<>> /\ c2d' = <<>>
        /\ UNCHANGED <<conn, clientVars>>
    BY <1>2 DEF DaemonStop
  <2>2. /\ d2c' \in Seq(DaemonMessage)
        /\ c2d' \in Seq(Attributed) /\ c2d' \in Seq(ClientMessage)
    BY <2>1
  <2>3. DaemonTypeOK'
    BY <1>2, <1>a DEF DaemonStop, DaemonTypeOK, PC
  <2>4. ASSUME NEW c \in Calls PROVE CallInv(c)'
    <3>1. CallInv(c) /\ pc[c] \in PC
      BY <1>a DEF DaemonTypeOK
    <3>2. /\ ops'[c] = NoOp /\ timer'[c] = "off"
          /\ pc'[c] = IF Live(c) THEN "aborted" ELSE pc[c]
          /\ UNCHANGED <<leaseRx, outcome>>
      BY <1>2 DEF DaemonStop
    <3> QED
      BY <3>1, <3>2 DEF CallInv, Live, Over, PC
  <2>5. ClientTypeOK' /\ ClientInv'
    BY <1>a, <2>1 DEF ClientTypeOK, ClientInv, clientVars
  <2> QED
    BY <1>a, <2>1, <2>2, <2>3, <2>4, <2>5 DEF IInv, TypeOK
<1>3. CASE Reconnect
  <2>1. /\ conn' = conn + 1 /\ conn < MaxConns /\ up' = TRUE
        /\ sessions' = sessions \cup {conn'}
        /\ UNCHANGED <<d2c, c2d, ops, pc, leaseRx, outcome, timer, relay, doomed,
                       cancelling, clientVars>>
    BY <1>3 DEF Reconnect
  <2>2. conn' \in 1 .. MaxConns
    BY <1>a, <2>1
  <2>3. DaemonTypeOK'
    BY <1>a, <2>1, <2>2 DEF DaemonTypeOK
  <2>4. \A c \in Calls : CallInv(c)'
    BY <1>a, <2>1 DEF CallInv
  <2>5. ClientTypeOK' /\ ClientInv'
    BY <1>a, <2>1 DEF ClientTypeOK, ClientInv, clientVars
  <2> QED
    BY <1>a, <2>1, <2>2, <2>3, <2>4, <2>5 DEF IInv, TypeOK
<1> QED
  BY <1>1, <1>2, <1>3

----------------------------------------------------------------------------
(* The inductive invariant.                                                *)

\* It holds at first.
LEMMA InitInv ==
    ASSUME Init
    PROVE  IInv
<1>1. \A c \in Calls : CallInv(c)
  BY DEF Init, DaemonInit, CallInv
<1>2. ClientTypeOK /\ ClientInv
  BY DEF Init, ClientInit, ClientTypeOK, ClientInv
<1>3. DaemonTypeOK
  BY DEF Init, DaemonInit, DaemonTypeOK, PC
<1> QED
  BY <1>1, <1>2, <1>3 DEF Init, IInv, TypeOK

\* Every step keeps it.
LEMMA NextInv ==
    ASSUME IInv, [Next]_vars
    PROVE  IInv'
<1>a. /\ d2c \in Seq(DaemonMessage) /\ c2d \in Seq(Attributed)
      /\ conn \in 1 .. MaxConns /\ up \in BOOLEAN
      /\ DaemonTypeOK /\ ClientTypeOK /\ ClientInv
      /\ \A c \in Calls : CallInv(c)
  BY DEF IInv, TypeOK
<1>b. ASSUME c2d' \in Seq(Attributed)
      PROVE  c2d' \in Seq(ClientMessage)
  <2>1. Attributed \subseteq ClientMessage
    BY DEF Attributed
  <2> QED
    BY <1>b, <2>1
<1>1. CASE DaemonStep /\ UNCHANGED <<linkVars, clientVars>>
  <2>1. DaemonInv'
    BY <1>1, <1>a, DaemonStepInv DEF DaemonInv
  <2>2. ClientTypeOK' /\ ClientInv'
    BY <1>1, <1>a DEF ClientTypeOK, ClientInv, clientVars
  <2>3. conn' \in 1 .. MaxConns /\ up' \in BOOLEAN
    BY <1>1, <1>a DEF linkVars
  <2> QED
    BY <1>b, <2>1, <2>2, <2>3 DEF DaemonInv, IInv, TypeOK
<1>2. CASE ClientStep /\ UNCHANGED <<linkVars, daemonVars>>
  <2>1. /\ d2c' \in Seq(DaemonMessage) /\ c2d' \in Seq(Attributed)
        /\ ClientTypeOK' /\ ClientInv'
    BY <1>2, ClientStepInv
  <2>2. DaemonTypeOK' /\ \A c \in Calls : CallInv(c)'
    BY <1>2, <1>a DEF DaemonTypeOK, CallInv, daemonVars
  <2>3. conn' \in 1 .. MaxConns /\ up' \in BOOLEAN
    BY <1>2, <1>a DEF linkVars
  <2> QED
    BY <1>b, <2>1, <2>2, <2>3 DEF IInv, TypeOK
<1>3. CASE UNCHANGED vars
  <2>1. DaemonTypeOK' /\ \A c \in Calls : CallInv(c)'
    BY <1>3, <1>a DEF DaemonTypeOK, CallInv, daemonVars, vars
  <2>2. ClientTypeOK' /\ ClientInv'
    BY <1>3, <1>a DEF ClientTypeOK, ClientInv, clientVars, vars
  <2>3. UNCHANGED <<d2c, c2d, conn, up>>
    BY <1>3 DEF vars, linkVars
  <2> QED
    BY <1>a, <1>b, <2>1, <2>2, <2>3 DEF IInv, TypeOK
<1> QED
  BY <1>1, <1>2, <1>3, LinkStepInv DEF Next

\* IInv holds in every reachable state, for any set of calls and any bounds.
THEOREM Inductive == Spec => []IInv
<1>1. Init => IInv
  BY InitInv
<1>2. IInv /\ [Next]_vars => IInv'
  BY NextInv
<1> QED
  BY <1>1, <1>2, PTL DEF Spec

\* The state of the daemon, the client and the channels stays within its types:
\* in particular every frame is one the two sides know.
THEOREM TypeCorrect == Spec => []TypeOK
<1>1. IInv => TypeOK
  BY DEF IInv
<1> QED
  BY <1>1, Inductive, PTL

\* A call inside execute_bash never waits on a oneshot whose sender was dropped
\* silently (relay_manager.rs:143-179): whatever cancel_all, the timeout task and
\* the client's reports do between its awaits, it is served.
THEOREM WaiterAlwaysServed == Spec => []WaiterServed
<1>1. IInv => WaiterServed
  BY DEF IInv, CallInv, WaiterServed
<1> QED
  BY <1>1, Inductive, PTL

\* A started command is timed and a command that is over is not
\* (relay_manager.rs:290-426), although the handlers abort the timeout task
\* before they check that the report is for the command at all.
THEOREM StartedAlwaysTimed == Spec => []TimedWhileStarted
<1>1. IInv => TimedWhileStarted
  BY DEF IInv, CallInv, TimedWhileStarted
<1> QED
  BY <1>1, Inductive, PTL

----------------------------------------------------------------------------
(* The owner of the shell: what the operations on a channel put into it.   *)

\* What is left of a channel was there.
LEMMA RangeOfTail ==
    ASSUME NEW S, NEW q \in Seq(S), q # <<>>
    PROVE  Head(q) \in Range(q) /\ Range(Tail(q)) \subseteq Range(q)
BY DEF Range

\* A frame that is sent is added to a channel.
LEMMA RangeOfAppend ==
    ASSUME NEW S, NEW q \in Seq(S), NEW x \in S
    PROVE  Range(Append(q, x)) = Range(q) \cup {x}
<1> DEFINE a == Append(q, x)
<1>1. /\ Len(q) + 1 \in DOMAIN a /\ DOMAIN q \subseteq DOMAIN a
      /\ \A i \in DOMAIN a : i \in DOMAIN q \/ i = Len(q) + 1
  OBVIOUS
<1>2. a[Len(q) + 1] = x /\ \A i \in DOMAIN q : a[i] = q[i]
  OBVIOUS
<1> QED
  BY <1>1, <1>2 DEF Range

\* What the daemon has read of a broken channel was sent.
LEMMA RangeOfPrefix ==
    ASSUME NEW S, NEW q \in Seq(S), NEW n \in 0 .. Len(q)
    PROVE  Range(SubSeq(q, 1, n)) \subseteq Range(q)
BY DEF Range

\* A message to the daemon is among those sent or was there before.
LEMMA RangeToDaemon ==
    ASSUME NEW S, c2d \in Seq(S), NEW f \in Seq(S), ToDaemon(f)
    PROVE  Range(c2d') \subseteq Range(c2d) \cup Range(f)
BY RangeConcatenation DEF ToDaemon

\* A frame from the daemon is the message sent or was there before.
LEMMA RangeSend ==
    ASSUME d2c \in Seq(DaemonMessage), NEW c \in Calls,
           NEW type \in {"AcquireShellLease", "ExecuteLeasedCommand",
                         "ReleaseShellLease", "CancelLeasedCommand"},
           SendToClient(c, type)
    PROVE  Range(d2c') \subseteq Range(d2c) \cup {DMsg(type, c)}
<1>1. DMsg(type, c) \in DaemonMessage
  BY DEF DMsg, DaemonMessage
<1> QED
  BY <1>1, RangeOfAppend DEF SendToClient

\* A frame to the client says what it is and of which lease.
LEMMA DMsgInjective ==
    ASSUME NEW c, NEW d, NEW s, NEW t, DMsg(s, c) = DMsg(t, d)
    PROVE  s = t /\ c = d
<1>1. DMsg(s, c).type = s /\ DMsg(s, c).lease = c /\ DMsg(t, d).type = t /\ DMsg(t, d).lease = d
  BY DEF DMsg
<1> QED
  BY <1>1

----------------------------------------------------------------------------
(* The steps of the daemon.                                                *)

Before == {"idle", "acquire"}
Using  == {"lease", "execute", "result"}

\* What a step of the daemon may do to the lease of a call.
DaemonEffect(c) ==
    /\ UNCHANGED <<active, queue>>
    /\ Announced(c)' => Announced(c)
    /\ leaseRx'[c] = "fired" => leaseRx[c] = "fired" \/ Announced(c)
    /\ InTransit(d2c, DMsg("ReleaseShellLease", c))' =>
          InTransit(d2c, DMsg("ReleaseShellLease", c)) \/ pc'[c] \in Past
    /\ InTransit(d2c, DMsg("AcquireShellLease", c))' =>
          InTransit(d2c, DMsg("AcquireShellLease", c)) \/ pc'[c] \notin Before
    /\ pc[c] \in Past => pc'[c] \in Past
    /\ pc'[c] \in Before => pc[c] \in Before
    /\ pc'[c] \in Using => pc[c] \notin Past /\ pc[c] # "idle"

\* An effect of the daemon keeps what is claimed of a lease.
LEMMA DaemonEffectInv ==
    ASSUME NEW c \in Calls, pc[c] \in PC, LeaseInv(c), DaemonEffect(c)
    PROVE  LeaseInv(c)'
BY DEF LeaseInv, DaemonEffect, Before, Using, Past, PC

\* The steps of calls, of their timers and new calls have no other effect.
LEMMA CallStepEffect ==
    ASSUME IInv, UNCHANGED clientVars, NEW d \in Calls,
           \/ CallStep(d) \/ Abort(d) \/ TimerStep(d)
           \/ \E r \in sessions \cup {cancelling} : Register(d, r)
    PROVE  \A c \in Calls : DaemonEffect(c)
<1>a. /\ d2c \in Seq(DaemonMessage) /\ pc \in [Calls -> PC]
      /\ UNCHANGED <<active, queue>>
  BY DEF IInv, TypeOK, DaemonTypeOK, clientVars
<1>b. ASSUME UNCHANGED c2d
      PROVE  \A c \in Calls : Announced(c)' => Announced(c)
  BY <1>b DEF Announced
<1>c. ASSUME UNCHANGED d2c
      PROVE  \A m : InTransit(d2c, m)' => InTransit(d2c, m)
  BY <1>c DEF InTransit
\* A frame that is new is the one that was sent.
<1>d. ASSUME NEW type \in {"AcquireShellLease", "ExecuteLeasedCommand",
                          "ReleaseShellLease", "CancelLeasedCommand"},
             SendToClient(d, type)
      PROVE  \A c \in Calls :
                 /\ InTransit(d2c, DMsg("ReleaseShellLease", c))' =>
                       \/ InTransit(d2c, DMsg("ReleaseShellLease", c))
                       \/ type = "ReleaseShellLease" /\ c = d
                 /\ InTransit(d2c, DMsg("AcquireShellLease", c))' =>
                       \/ InTransit(d2c, DMsg("AcquireShellLease", c))
                       \/ type = "AcquireShellLease" /\ c = d
  <2>1. Range(d2c') \subseteq Range(d2c) \cup {DMsg(type, d)}
    BY <1>a, <1>d, RangeSend
  <2> QED
    BY <2>1, DMsgInjective DEF InTransit
\* One program counter moves.
<1>e. ASSUME NEW q \in PC, pc' = [pc EXCEPT ![d] = q]
      PROVE  pc'[d] = q /\ \A c \in Calls : c # d => pc'[c] = pc[c]
  BY <1>a, <1>e
<1>f. pc[d] \in PC
  BY <1>a
<1>1. CASE LeaseGranted(d)
  <2>1. pc[d] = "lease" /\ UNCHANGED <<c2d, leaseRx, d2c>>
    BY <1>1 DEF LeaseGranted, Live, Over, PC
  <2>2. pc' = [pc EXCEPT ![d] = "execute"]
    BY <1>1 DEF LeaseGranted, Goto
  <2>3. pc'[d] = "execute" /\ \A c \in Calls : c # d => pc'[c] = pc[c]
    BY <1>e, <2>2 DEF PC
  <2> QED
    BY <1>a, <1>b, <1>c, <1>f, <2>1, <2>3 DEF DaemonEffect, Before, Using, Past, PC
<1>2. CASE LeaseCancelled(d)
  <2>1. pc[d] = "lease" /\ UNCHANGED <<c2d, leaseRx, d2c>>
    BY <1>2 DEF LeaseCancelled, Live, Over, PC
  <2>2. pc' = [pc EXCEPT ![d] = "returned"]
    BY <1>2 DEF LeaseCancelled, Goto
  <2>3. pc'[d] = "returned" /\ \A c \in Calls : c # d => pc'[c] = pc[c]
    BY <1>e, <2>2 DEF PC
  <2> QED
    BY <1>a, <1>b, <1>c, <1>f, <2>1, <2>3 DEF DaemonEffect, Before, Using, Past, PC
<1>3. CASE CleanUp(d)
  <2>1. pc[d] = "cleanup" /\ UNCHANGED <<c2d, leaseRx, d2c>>
    BY <1>3 DEF CleanUp, Live, Over, PC
  <2>2. pc' = [pc EXCEPT ![d] = "returned"]
    BY <1>3 DEF CleanUp, Goto
  <2>3. pc'[d] = "returned" /\ \A c \in Calls : c # d => pc'[c] = pc[c]
    BY <1>e, <2>2 DEF PC
  <2> QED
    BY <1>a, <1>b, <1>c, <1>f, <2>1, <2>3 DEF DaemonEffect, Before, Using, Past, PC
<1>4. CASE Abort(d)
  <2>1. pc[d] \notin {"idle", "returned", "aborted"} /\ UNCHANGED <<c2d, leaseRx, d2c>>
    BY <1>4 DEF Abort, Live, Over, PC
  <2>2. pc' = [pc EXCEPT ![d] = "aborted"]
    BY <1>4 DEF Abort, Goto
  <2>3. pc'[d] = "aborted" /\ \A c \in Calls : c # d => pc'[c] = pc[c]
    BY <1>e, <2>2 DEF PC
  <2> QED
    BY <1>a, <1>b, <1>c, <1>f, <2>1, <2>3 DEF DaemonEffect, Before, Using, Past, PC
<1>5. CASE SendAcquire(d)
  <2>1. pc[d] = "acquire" /\ UNCHANGED <<c2d, leaseRx>> /\ SendToClient(d, "AcquireShellLease")
    BY <1>5 DEF SendAcquire
  <2>2. PICK q \in {"lease", "returned"} : pc' = [pc EXCEPT ![d] = q]
    BY <1>5 DEF SendAcquire, Goto
  <2>3. pc'[d] = q /\ \A c \in Calls : c # d => pc'[c] = pc[c]
    BY <1>e, <2>2 DEF PC
  <2> QED
    BY <1>a, <1>b, <1>d, <1>f, <2>1, <2>3 DEF DaemonEffect, Before, Using, Past, PC
<1>6. CASE SendExecute(d)
  <2>1. pc[d] = "execute" /\ UNCHANGED <<c2d, leaseRx>> /\ SendToClient(d, "ExecuteLeasedCommand")
    BY <1>6 DEF SendExecute
  <2>2. PICK q \in {"result", "returned"} : pc' = [pc EXCEPT ![d] = q]
    BY <1>6 DEF SendExecute, Goto
  <2>3. pc'[d] = q /\ \A c \in Calls : c # d => pc'[c] = pc[c]
    BY <1>e, <2>2 DEF PC
  <2> QED
    BY <1>a, <1>b, <1>d, <1>f, <2>1, <2>3 DEF DaemonEffect, Before, Using, Past, PC
<1>7. CASE SendRelease(d)
  <2>1. pc[d] = "result" /\ UNCHANGED <<c2d, leaseRx>> /\ SendToClient(d, "ReleaseShellLease")
    BY <1>7 DEF SendRelease
  <2>2. PICK q \in {"cleanup"} : pc' = [pc EXCEPT ![d] = q]
    BY <1>7 DEF SendRelease, Goto
  <2>3. pc'[d] = q /\ \A c \in Calls : c # d => pc'[c] = pc[c]
    BY <1>e, <2>2 DEF PC
  <2> QED
    BY <1>a, <1>b, <1>d, <1>f, <2>1, <2>3 DEF DaemonEffect, Before, Using, Past, PC
<1>8. CASE TimerExpire(d)
  <2>1. UNCHANGED <<c2d, leaseRx, d2c, pc>>
    BY <1>8 DEF TimerExpire
  <2> QED
    BY <1>a, <1>b, <1>c, <2>1 DEF DaemonEffect, Before, Using, Past, PC
<1>9. CASE SendCancel(d)
  <2>1. UNCHANGED <<c2d, leaseRx, pc>> /\ SendToClient(d, "CancelLeasedCommand")
    BY <1>9 DEF SendCancel
  <2> QED
    BY <1>a, <1>b, <1>d, <2>1 DEF DaemonEffect, Before, Using, Past, PC
<1>10. ASSUME NEW r, Register(d, r)
      PROVE  \A c \in Calls : DaemonEffect(c)
  <2>1. /\ pc[d] = "idle" /\ UNCHANGED <<c2d, leaseRx, d2c>>
        /\ pc' = [pc EXCEPT ![d] = "acquire"]
    BY <1>10 DEF Register, Goto
  <2>2. pc'[d] = "acquire" /\ \A c \in Calls : c # d => pc'[c] = pc[c]
    BY <1>e, <2>1 DEF PC
  <2> QED
    BY <1>a, <1>b, <1>c, <1>f, <2>1, <2>2 DEF DaemonEffect, Before, Using, Past, PC
<1> QED
  BY <1>1, <1>2, <1>3, <1>4, <1>5, <1>6, <1>7, <1>8, <1>9, <1>10 DEF CallStep, TimerStep

\* No step of the daemon has another effect.
LEMMA DaemonStepEffect ==
    ASSUME IInv, UNCHANGED clientVars, DaemonStep
    PROVE  \A c \in Calls : DaemonEffect(c)
<1>a. /\ c2d \in Seq(Attributed) /\ pc \in [Calls -> PC]
      /\ leaseRx \in [Calls -> {"pending", "fired", "dropped"}]
      /\ UNCHANGED <<active, queue>>
  BY DEF IInv, TypeOK, DaemonTypeOK, clientVars
\* A message of the client is consumed.
<1>b. ASSUME NEW type, Receive(type)
      PROVE  /\ Head(c2d) \in Range(c2d) /\ Head(c2d).type = type
             /\ \A c \in Calls : Announced(c)' => Announced(c)
  <2>1. c2d # <<>> /\ c2d' = Tail(c2d) /\ Head(c2d).type = type
    BY <1>b DEF Receive
  <2>2. Head(c2d) \in Range(c2d) /\ Range(Tail(c2d)) \subseteq Range(c2d)
    BY <1>a, <2>1, RangeOfTail
  <2> QED
    BY <2>1, <2>2 DEF Announced
\* No oneshot is fired by emptying the map.
<1>c. ASSUME NEW r, CancelAll(r)
      PROVE  \A c \in Calls : leaseRx'[c] = "fired" => leaseRx[c] = "fired"
  BY <1>c DEF CancelAll
<1>d. ASSUME UNCHANGED <<d2c, pc>>,
             \A c \in Calls : Announced(c)' => Announced(c),
             \A c \in Calls : leaseRx'[c] = "fired" => leaseRx[c] = "fired" \/ Announced(c)
      PROVE  \A c \in Calls : DaemonEffect(c)
  BY <1>a, <1>d DEF DaemonEffect, Before, Using, Past, PC, InTransit
<1>1. CASE OnLeaseAcquired
  <2>1. UNCHANGED <<d2c, pc>> /\ Receive("ShellLeaseAcquired")
    BY <1>1 DEF OnLeaseAcquired
  <2>2. PICK l : l = Head(c2d).lease
    OBVIOUS
  <2>3. l \in Calls => Announced(l)
    BY <1>b, <2>1, <2>2 DEF Announced
  <2>4. leaseRx' = leaseRx \/ (l \in Calls /\ leaseRx' = [leaseRx EXCEPT ![l] = "fired"])
    BY <1>1, <2>2 DEF OnLeaseAcquired, HasOp
  <2>5. \A c \in Calls : leaseRx'[c] = "fired" => leaseRx[c] = "fired" \/ Announced(c)
    BY <1>a, <2>3, <2>4
  <2> QED
    BY <1>b, <1>d, <2>1, <2>5
<1>2. CASE OnLeaseQueued \/ OnLeaseReleased \/ OnCommandStarted
           \/ OnCommandCompleted \/ OnCommandFailed \/ OnCommandCancelled
  <2>1. UNCHANGED <<d2c, pc, leaseRx>> /\ \E type : Receive(type)
    BY <1>2 DEF OnLeaseQueued, OnLeaseReleased, OnCommandStarted,
                OnCommandCompleted, OnCommandFailed, OnCommandCancelled, Resolve
  <2> QED
    BY <1>b, <1>d, <2>1
<1>3. CASE HandleCancelRequest
  <2>1. /\ UNCHANGED <<d2c, pc>> /\ Receive("CancelRequest")
        /\ UNCHANGED leaseRx \/ \E r : CancelAll(r)
    BY <1>3 DEF HandleCancelRequest
  <2> QED
    BY <1>b, <1>c, <1>d, <2>1
<1>4. ASSUME NEW r \in sessions, CleanupStale(r)
      PROVE  \A c \in Calls : DaemonEffect(c)
  <2>1. UNCHANGED <<d2c, c2d, pc>> /\ CancelAll(r)
    BY <1>4 DEF CleanupStale
  <2>2. \A c \in Calls : Announced(c)' => Announced(c)
    BY <2>1 DEF Announced
  <2> QED
    BY <1>c, <1>d, <2>1, <2>2
<1>5. CASE AbortAgent
  <2>1. UNCHANGED <<d2c, c2d, pc, leaseRx>>
    BY <1>5 DEF AbortAgent
  <2>2. \A c \in Calls : Announced(c)' => Announced(c)
    BY <2>1 DEF Announced
  <2> QED
    BY <1>d, <2>1, <2>2
<1> QED
  BY <1>1, <1>2, <1>3, <1>4, <1>5, CallStepEffect DEF DaemonStep, DaemonHandle

----------------------------------------------------------------------------
(* The steps of the client.                                                *)

\* What a step of the client may do to the lease of a call.
ClientEffect(c) ==
    /\ UNCHANGED <<pc, leaseRx>>
    /\ Range(d2c') \subseteq Range(d2c)
    /\ InTransit(queue, c)' =>
          InTransit(queue, c) \/ InTransit(d2c, DMsg("AcquireShellLease", c))
    /\ active' = c => \/ active = c \/ InTransit(queue, c)
                      \/ InTransit(d2c, DMsg("AcquireShellLease", c))
    /\ Announced(c)' => Announced(c) \/ active' = c
    /\ active = c => active' = c \/ InTransit(d2c, DMsg("ReleaseShellLease", c))

\* An effect of the client keeps what is claimed of a lease.
LEMMA ClientEffectInv ==
    ASSUME NEW c \in Calls, LeaseInv(c), ClientEffect(c)
    PROVE  LeaseInv(c)'
BY DEF LeaseInv, ClientEffect, InTransit

\* No step of the client has another effect.
LEMMA ClientStepEffect ==
    ASSUME IInv, LineInv, UNCHANGED daemonVars, UNCHANGED linkVars, ClientStep
    PROVE  /\ \A c \in Calls : ClientEffect(c)
           /\ LineInv'
<1>a. /\ d2c \in Seq(DaemonMessage) /\ c2d \in Seq(Attributed) /\ conn \in 1 .. MaxConns
      /\ ClientTypeOK /\ ClientInv /\ UNCHANGED <<pc, leaseRx>>
  BY DEF IInv, TypeOK, daemonVars
<1>b. ASSUME NEW type, Deliver(type)
      PROVE  /\ Head(d2c).lease \in Calls
             /\ InTransit(d2c, DMsg(type, Head(d2c).lease))
             /\ Range(d2c') \subseteq Range(d2c)
             /\ phase \in {"select", "drain"} /\ phase' = "drain"
  <2>1. /\ d2c # <<>> /\ d2c' = Tail(d2c) /\ Head(d2c).type = type
        /\ phase \in {"select", "drain"} /\ phase' = "drain"
    BY <1>b DEF Deliver
  <2>2. Head(d2c) \in Range(d2c) /\ Range(d2c') \subseteq Range(d2c)
    BY <1>a, <2>1, RangeOfTail
  <2>3. Head(d2c) \in DaemonMessage
    BY <1>a, <2>1
  <2>4. Head(d2c).lease \in Calls /\ Head(d2c) = DMsg(type, Head(d2c).lease)
    BY <2>1, <2>3 DEF DaemonMessage, DMsg
  <2> QED
    BY <2>1, <2>2, <2>4 DEF InTransit
\* Frames that announce no lease leave the announcements as they were.
<1>c. ASSUME NEW f \in Seq(Attributed), ToDaemon(f)
      PROVE  Range(c2d') \subseteq Range(c2d) \cup Range(f)
  BY <1>a, <1>c, RangeToDaemon
<1>e. ASSUME NEW m \in Attributed, ToDaemon(<<m>>)
      PROVE  Range(c2d') \subseteq Range(c2d) \cup {m}
  <2>1. <<m>> \in Seq(Attributed) /\ Range(<<m>>) = {m}
    BY DEF Range
  <2> QED
    BY <1>c, <1>e, <2>1
\* A step that neither receives nor grants.
<1>d. ASSUME UNCHANGED <<active, queue, d2c>>,
             \/ UNCHANGED c2d
             \/ \E m \in Attributed : ToDaemon(<<m>>) /\ m.type # "ShellLeaseAcquired"
             \/ ToDaemon(<<>>)
      PROVE  \A c \in Calls : ClientEffect(c)
  <2>1. <<>> \in Seq(Attributed) /\ Range(<<>>) = {}
    BY DEF Range
  <2>2. \A c \in Calls : Announced(c)' => Announced(c)
    <3>1. CASE UNCHANGED c2d
      BY <3>1 DEF Announced
    <3>2. ASSUME NEW m \in Attributed, ToDaemon(<<m>>), m.type # "ShellLeaseAcquired"
          PROVE  \A c \in Calls : Announced(c)' => Announced(c)
      BY <1>e, <3>2 DEF Announced
    <3>3. CASE ToDaemon(<<>>)
      BY <1>c, <2>1, <3>3 DEF Announced
    <3> QED
      BY <1>d, <3>1, <3>2, <3>3
  <2> QED
    BY <1>a, <1>d, <2>2 DEF ClientEffect, InTransit
<1>1. CASE HandleAcquire
  <2>1. PICK l : l = Head(d2c).lease
    OBVIOUS
  <2>2. /\ l \in Calls /\ InTransit(d2c, DMsg("AcquireShellLease", l))
        /\ Range(d2c') \subseteq Range(d2c) /\ phase \in {"select", "drain"}
        /\ UNCHANGED pending
    BY <1>1, <1>b, <2>1 DEF HandleAcquire
  <2>3. CASE CanGrant
    <3>1. /\ active' = l /\ active = NoLease /\ UNCHANGED queue
          /\ ToDaemon(<<CMsg("ShellLeaseAcquired", l)>>)
      BY <1>1, <2>1, <2>3 DEF HandleAcquire, CanGrant
    <3>2. Range(c2d') \subseteq Range(c2d) \cup {CMsg("ShellLeaseAcquired", l)}
      BY <1>a, <1>e, <2>2, <3>1, LeaseReplyAttributed
    <3>3. \A c \in Calls : Announced(c)' => Announced(c) \/ c = l
      BY <3>2 DEF Announced, CMsg
    <3>4. LineInv'
      BY <2>2, <3>1, NoLeaseAssumption DEF LineInv, CanGrant
    <3>5. ASSUME NEW c \in Calls PROVE ClientEffect(c)
      BY <1>a, <2>2, <3>1, <3>3, NoLeaseAssumption DEF ClientEffect, InTransit
    <3> QED
      BY <3>4, <3>5
  <2>4. CASE ~ CanGrant
    <3>1. /\ queue' = Append(queue, l) /\ UNCHANGED active
          /\ ToDaemon(<<CMsg("ShellLeaseQueued", l)>>)
      BY <1>1, <2>1, <2>4 DEF HandleAcquire
    <3>2. Range(c2d') \subseteq Range(c2d) \cup {CMsg("ShellLeaseQueued", l)}
      BY <1>a, <1>e, <2>2, <3>1, LeaseReplyAttributed
    <3>3. \A c \in Calls : Announced(c)' => Announced(c)
      BY <3>2 DEF Announced, CMsg
    <3>4. Range(queue') = Range(queue) \cup {l}
      BY <1>a, <2>2, <3>1, RangeOfAppend DEF ClientTypeOK
    <3>5. LineInv'
      BY <2>2, <2>4, <3>1 DEF LineInv, CanGrant, ShellFree
    <3>6. ASSUME NEW c \in Calls PROVE ClientEffect(c)
      BY <1>a, <2>2, <3>1, <3>3, <3>4 DEF ClientEffect, InTransit
    <3> QED
      BY <3>5, <3>6
  <2> QED
    BY <2>3, <2>4
<1>2. CASE HandleExecute
  <2>1. /\ UNCHANGED <<active, queue, pending, c2d>>
        /\ Range(d2c') \subseteq Range(d2c) /\ phase \in {"select", "drain"}
    BY <1>2, <1>b DEF HandleExecute
  <2>2. \A c \in Calls : Announced(c)' => Announced(c)
    BY <2>1 DEF Announced
  <2> QED
    BY <1>a, <2>1, <2>2 DEF ClientEffect, InTransit, LineInv, CanGrant, ShellFree
\* Promotion hands the lease to the head of the line, or to nobody.
<1>f. ASSUME NEW f \in Seq(Attributed), \A m \in Range(f) : m.type # "ShellLeaseAcquired",
             Promote(f), UNCHANGED pending
      PROVE  /\ LineInv'
             /\ \A c \in Calls :
                   /\ InTransit(queue, c)' => InTransit(queue, c)
                   /\ active' = c => InTransit(queue, c)
                   /\ Announced(c)' => Announced(c) \/ active' = c
  <2>1. CASE ShellFree /\ queue # <<>>
    <3>1. PICK h : h = Head(queue)
      OBVIOUS
    <3>2. /\ active' = h /\ queue' = Tail(queue)
          /\ ToDaemon(f \o <<CMsg("ShellLeaseAcquired", h)>>)
      BY <1>f, <2>1, <3>1 DEF Promote
    <3>3. h \in Calls /\ h \in Range(queue) /\ Range(queue') \subseteq Range(queue)
      BY <1>a, <2>1, <3>1, <3>2, RangeOfTail DEF ClientTypeOK
    <3>4. PICK m \in Attributed : m = CMsg("ShellLeaseAcquired", h)
      BY <1>a, <3>3, LeaseReplyAttributed
    <3>5. <<m>> \in Seq(Attributed) /\ Range(<<m>>) = {m}
      BY DEF Range
    <3>6. f \o <<m>> \in Seq(Attributed) /\ Range(f \o <<m>>) = Range(f) \cup {m}
      <4>1. f \o <<m>> \in Seq(Attributed)
        BY <1>f, <3>5
      <4>2. Append(f, m) = f \o <<m>>
        BY <1>f
      <4> QED
        BY <1>f, <4>1, <4>2, RangeOfAppend
    <3>7. Range(c2d') \subseteq Range(c2d) \cup Range(f) \cup {m}
      BY <1>c, <3>2, <3>4, <3>6
    <3>8. \A c \in Calls : Announced(c)' => Announced(c) \/ c = h
      BY <1>f, <3>4, <3>7 DEF Announced, CMsg
    <3>9. LineInv'
      BY <3>2, <3>3, NoLeaseAssumption DEF LineInv, CanGrant
    <3> QED
      BY <3>2, <3>3, <3>8, <3>9 DEF InTransit
  <2>2. CASE ~ (ShellFree /\ queue # <<>>)
    <3>1. active' = NoLease /\ UNCHANGED queue /\ ToDaemon(f)
      BY <1>f, <2>2 DEF Promote
    <3>2. Range(c2d') \subseteq Range(c2d) \cup Range(f)
      BY <1>c, <3>1
    <3>3. \A c \in Calls : Announced(c)' => Announced(c)
      BY <1>f, <3>2 DEF Announced
    <3>4. LineInv'
      BY <1>f, <2>2, <3>1 DEF LineInv, CanGrant, ShellFree
    <3> QED
      BY <3>1, <3>3, <3>4, NoLeaseAssumption DEF InTransit
  <2> QED
    BY <2>1, <2>2
<1>3. CASE HandleRelease
  <2>1. PICK l : l = Head(d2c).lease
    OBVIOUS
  <2>2. /\ l \in Calls /\ InTransit(d2c, DMsg("ReleaseShellLease", l))
        /\ Range(d2c') \subseteq Range(d2c) /\ phase \in {"select", "drain"}
        /\ UNCHANGED pending
    BY <1>3, <1>b, <2>1 DEF HandleRelease
  <2>3. CASE active = l
    <3>1. PICK m \in Attributed : m = CMsg("ShellLeaseReleased", l)
      BY <1>a, <2>2, LeaseReplyAttributed
    <3>2. Promote(<<m>>)
      BY <1>3, <2>1, <2>3, <3>1 DEF HandleRelease
    <3>3. /\ <<m>> \in Seq(Attributed)
          /\ \A x \in Range(<<m>>) : x.type # "ShellLeaseAcquired"
      BY <3>1 DEF Range, CMsg
    <3>4. /\ LineInv'
          /\ \A c \in Calls :
                /\ InTransit(queue, c)' => InTransit(queue, c)
                /\ active' = c => InTransit(queue, c)
                /\ Announced(c)' => Announced(c) \/ active' = c
      BY <1>f, <2>2, <3>2, <3>3
    <3>5. ASSUME NEW c \in Calls PROVE ClientEffect(c)
      BY <1>a, <2>2, <2>3, <3>4 DEF ClientEffect
    <3> QED
      BY <3>4, <3>5
  <2>4. CASE active # l
    <3>1. UNCHANGED <<active, queue, c2d>>
      BY <1>3, <2>1, <2>4 DEF HandleRelease
    <3>2. \A c \in Calls : Announced(c)' => Announced(c)
      BY <3>1 DEF Announced
    <3> QED
      BY <1>a, <2>2, <3>1, <3>2 DEF ClientEffect, InTransit, LineInv, CanGrant, ShellFree
  <2> QED
    BY <2>3, <2>4
<1>4. CASE HandleCancel
  <2>1. PICK l : l = Head(d2c).lease
    OBVIOUS
  <2>2. /\ l \in Calls /\ Range(d2c') \subseteq Range(d2c) /\ phase \in {"select", "drain"}
        /\ UNCHANGED <<active, queue, pending>>
        /\ ToDaemon(<<Reply("CommandCancelled", l, l)>>)
    BY <1>4, <1>b, <2>1 DEF HandleCancel
  <2>3. Range(c2d') \subseteq Range(c2d) \cup {Reply("CommandCancelled", l, l)}
    BY <1>a, <1>e, <2>2, CommandReplyAttributed
  <2>4. \A c \in Calls : Announced(c)' => Announced(c)
    BY <2>3 DEF Announced, Reply
  <2> QED
    BY <1>a, <2>2, <2>4 DEF ClientEffect, InTransit, LineInv, CanGrant, ShellFree
<1>5. CASE \/ StartUserCommand \/ PressCtrlC \/ Wake \/ NotComplete
           \/ GiveUp \/ ShellBusy
  <2>1. UNCHANGED <<active, queue, d2c>>
    BY <1>5 DEF StartUserCommand, PressCtrlC, Wake, NotComplete, GiveUp, ShellBusy
  <2>2. UNCHANGED c2d /\ LineInv'
    BY <1>5 DEF StartUserCommand, PressCtrlC, Wake, NotComplete, GiveUp, ShellBusy,
                Select, Checking, Starting, LineInv, CanGrant, ShellFree
  <2> QED
    BY <1>d, <2>1, <2>2
<1>6. CASE PressEsc
  <2>1. PICK m : m = [type |-> "CancelRequest", from |-> conn]
    OBVIOUS
  <2>2. m \in Attributed /\ m.type # "ShellLeaseAcquired"
    BY <1>a, <2>1 DEF Attributed, ClientMessage, CancelRequest, CommandReply
  <2>3. /\ ToDaemon(<<m>>) /\ UNCHANGED <<active, queue, d2c>> /\ phase' = "check"
    BY <1>6, <2>1 DEF PressEsc, Select
  <2> QED
    BY <1>d, <2>2, <2>3 DEF LineInv
<1>7. CASE Complete
  <2>1. UNCHANGED <<active, queue, d2c>> /\ phase' = "start"
    BY <1>7 DEF Complete, Checking
  <2>2. \/ ToDaemon(<<>>)
        \/ \E m \in Attributed : ToDaemon(<<m>>) /\ m.type # "ShellLeaseAcquired"
    <3>1. CASE pending = UserCommand
      BY <1>7, <3>1 DEF Complete
    <3>2. CASE pending # UserCommand
      <4>1. pending \in Calls /\ active \in {pending, NoLease}
        BY <1>7, <1>a, <3>2 DEF Complete, ShellFree, ClientTypeOK, ClientInv
      <4>2. PICK m \in Attributed : m = Reply("CommandCompleted", active, pending)
        BY <1>a, <4>1, CommandReplyAttributed
      <4>3. ToDaemon(<<m>>) /\ m.type # "ShellLeaseAcquired"
        BY <1>7, <3>2, <4>2 DEF Complete, Reply
      <4> QED
        BY <4>3
    <3> QED
      BY <3>1, <3>2
  <2> QED
    BY <1>d, <2>1, <2>2 DEF LineInv
<1>8. CASE PromoteNext
  <2>1. UNCHANGED <<pending, d2c>>
    BY <1>8 DEF PromoteNext
  <2>2. CASE active = NoLease
    <3>1. Promote(<<>>) /\ <<>> \in Seq(Attributed) /\ Range(<<>>) = {}
      BY <1>8, <2>2 DEF PromoteNext, Range
    <3>2. /\ LineInv'
          /\ \A c \in Calls :
                /\ InTransit(queue, c)' => InTransit(queue, c)
                /\ active' = c => InTransit(queue, c)
                /\ Announced(c)' => Announced(c) \/ active' = c
      BY <1>f, <2>1, <3>1
    <3> QED
      BY <1>a, <2>1, <2>2, <3>2, NoLeaseAssumption DEF ClientEffect
  <2>3. CASE active # NoLease
    <3>1. UNCHANGED <<active, queue, c2d>>
      BY <1>8, <2>3 DEF PromoteNext
    <3>2. LineInv'
      BY <2>3, <3>1 DEF LineInv, CanGrant
    <3> QED
      BY <1>d, <2>1, <3>1, <3>2
  <2> QED
    BY <2>2, <2>3
<1>9. CASE StartLeased \/ StartFailed
  <2>1. /\ ready \in Calls /\ active = ready /\ UNCHANGED <<active, queue, d2c>>
        /\ \E type \in {"CommandStarted", "CommandFailed"} :
               ToDaemon(<<Reply(type, active, ready)>>)
    BY <1>9, <1>a
    DEF StartLeased, StartFailed, StartReady, ClientTypeOK, ClientInv
  <2>2. PICK type \in {"CommandStarted", "CommandFailed"} :
            ToDaemon(<<Reply(type, active, ready)>>)
    BY <2>1
  <2>3. PICK m \in Attributed : m = Reply(type, active, ready)
    BY <1>a, <2>1, CommandReplyAttributed
  <2>4. m.type # "ShellLeaseAcquired"
    BY <2>3 DEF Reply
  <2>5. LineInv'
    BY <2>1, NoLeaseAssumption DEF LineInv, CanGrant
  <2> QED
    BY <1>d, <2>1, <2>2, <2>3, <2>4, <2>5
<1> QED
  BY <1>1, <1>2, <1>3, <1>4, <1>5, <1>6, <1>7, <1>8, <1>9
  DEF ClientStep, HandleLeaseMessage, UserStep, CommandOver, StartStep

----------------------------------------------------------------------------
(* The steps of the connection.                                            *)

\* What befalls the connection keeps the invariant.
LEMMA LinkStepOwnership ==
    ASSUME IInv, OwnershipInv, Disconnect \/ DaemonStop \/ Reconnect
    PROVE  OwnershipInv'
<1>a. /\ d2c \in Seq(DaemonMessage) /\ c2d \in Seq(Attributed)
      /\ pc \in [Calls -> PC] /\ LineInv /\ \A c \in Calls : LeaseInv(c)
  BY DEF IInv, TypeOK, DaemonTypeOK, OwnershipInv
\* The link loses frames and ends calls; it moves no lease.
<1>b. ASSUME UNCHANGED clientVars, UNCHANGED leaseRx,
             Range(d2c') \subseteq Range(d2c), Range(c2d') \subseteq Range(c2d),
             \A c \in Calls : pc'[c] = pc[c] \/ (pc[c] # "idle" /\ pc'[c] = "aborted")
      PROVE  OwnershipInv'
  <2>1. LineInv'
    BY <1>a, <1>b DEF LineInv, CanGrant, ShellFree, clientVars
  <2>2. ASSUME NEW c \in Calls PROVE LeaseInv(c)'
    BY <1>a, <1>b DEF LeaseInv, InTransit, Announced, clientVars
  <2> QED
    BY <2>1, <2>2 DEF OwnershipInv
<1>1. CASE Disconnect
  <2>1. PICK n \in 0 .. Len(c2d) : c2d' = SubSeq(c2d, 1, n)
    BY <1>1 DEF Disconnect
  <2>2. UNCHANGED <<daemonVars, clientVars>> /\ d2c' = <<>>
    BY <1>1 DEF Disconnect
  <2>3. Range(c2d') \subseteq Range(c2d)
    BY <1>a, <2>1, RangeOfPrefix
  <2>4. Range(d2c') \subseteq Range(d2c)
    BY <2>2 DEF Range
  <2> QED
    BY <1>b, <2>2, <2>3, <2>4 DEF daemonVars
<1>2. CASE DaemonStop
  <2>1. /\ UNCHANGED <<leaseRx, clientVars>> /\ d2c' = <<>> /\ c2d' = <<>>
        /\ pc' = [c \in Calls |-> IF Live(c) THEN "aborted" ELSE pc[c]]
    BY <1>2 DEF DaemonStop
  <2>2. Range(d2c') \subseteq Range(d2c) /\ Range(c2d') \subseteq Range(c2d)
    BY <2>1 DEF Range
  <2> QED
    BY <1>b, <2>1, <2>2 DEF Live
<1>3. CASE Reconnect
  BY <1>3, <1>b DEF Reconnect
<1> QED
  BY <1>1, <1>2, <1>3

----------------------------------------------------------------------------
(* One owner.                                                              *)

\* It holds at first.
LEMMA InitOwnership ==
    ASSUME Init
    PROVE  OwnershipInv
<1>1. Range(d2c) = {} /\ Range(c2d) = {} /\ Range(queue) = {}
  BY DEF Init, ClientInit, Range
<1>2. /\ active = NoLease /\ queue = <<>>
      /\ \A c \in Calls : pc[c] = "idle" /\ leaseRx[c] = "pending"
  BY DEF Init, DaemonInit, ClientInit
<1>3. ASSUME NEW c \in Calls PROVE LeaseInv(c)
  BY <1>1, <1>2, NoLeaseAssumption DEF LeaseInv, InTransit, Announced
<1> QED
  BY <1>2, <1>3 DEF OwnershipInv, LineInv

\* Every step keeps it.
LEMMA NextOwnership ==
    ASSUME IInv, OwnershipInv, [Next]_vars
    PROVE  OwnershipInv'
<1>a. LineInv /\ \A c \in Calls : LeaseInv(c) /\ pc[c] \in PC
  BY DEF OwnershipInv, IInv, TypeOK, DaemonTypeOK
<1>1. CASE DaemonStep /\ UNCHANGED <<linkVars, clientVars>>
  <2>1. \A c \in Calls : LeaseInv(c)'
    BY <1>1, <1>a, DaemonStepEffect, DaemonEffectInv
  <2>2. LineInv'
    BY <1>1, <1>a DEF LineInv, CanGrant, ShellFree, clientVars
  <2> QED
    BY <2>1, <2>2 DEF OwnershipInv
<1>2. CASE ClientStep /\ UNCHANGED <<linkVars, daemonVars>>
  BY <1>2, <1>a, ClientStepEffect, ClientEffectInv DEF OwnershipInv
<1>3. CASE UNCHANGED vars
  BY <1>3, <1>a
  DEF vars, daemonVars, clientVars, OwnershipInv, LeaseInv, LineInv, InTransit, Announced,
      CanGrant, ShellFree
<1> QED
  BY <1>1, <1>2, <1>3, LinkStepOwnership DEF Next

\* OwnershipInv holds in every reachable state.
THEOREM Ownership == Spec => []OwnershipInv
<1>1. Init => OwnershipInv
  BY InitOwnership
<1>2. IInv /\ OwnershipInv /\ [Next]_vars => OwnershipInv'
  BY NextOwnership
<1> QED
  BY <1>1, <1>2, Inductive, PTL DEF Spec

\* Any number of bash calls, over any number of connections, cancellations and
\* disconnections: the shell is leased to one call at a time.  A call that goes on
\* after its lease was acquired (relay_manager.rs:143-192) is the client's active
\* lease (lease.rs:13-35), so two such calls are the same one.
THEOREM OneHolder == Spec => []HolderIsActive
<1>1. OwnershipInv => HolderIsActive
  BY DEF OwnershipInv, LeaseInv, HolderIsActive, Holding
<1> QED
  BY <1>1, Ownership, PTL

----------------------------------------------------------------------------
(* The client implements the arbiter.                                      *)

\* A step of the client is a step of the arbiter or leaves it alone.
LEMMA ClientStepRefines ==
    ASSUME IInv, LineInv, ClientStep
    PROVE  [Arbiter!Next]_(Arbiter!vars)
<1>a. ClientTypeOK /\ ClientInv /\ d2c \in Seq(DaemonMessage)
  BY DEF IInv, TypeOK
<1> USE DEF Arbiter!Next, Arbiter!vars
<1>b. ASSUME NEW type, Deliver(type)
      PROVE  Head(d2c).lease \in Calls /\ phase \in {"select", "drain"}
  <2>1. Head(d2c) \in DaemonMessage /\ phase \in {"select", "drain"}
    BY <1>a, <1>b DEF Deliver
  <2> QED
    BY <2>1 DEF DaemonMessage
<1>1. CASE HandleAcquire
  <2>1. PICK l \in Calls : l = Head(d2c).lease
    BY <1>1, <1>b DEF HandleAcquire
  <2>2. phase \in {"select", "drain"} /\ UNCHANGED pending
    BY <1>1, <1>b DEF HandleAcquire
  <2>3. CASE CanGrant
    <3>1. Arbiter!GrantAtOnce(l)
      BY <1>1, <2>1, <2>2, <2>3 DEF HandleAcquire, CanGrant, ShellFree, LineInv, Arbiter!GrantAtOnce
    <3> QED
      BY <3>1
  <2>4. CASE ~ CanGrant
    <3>1. Arbiter!Queue(l)
      BY <1>1, <2>1, <2>2, <2>4 DEF HandleAcquire, CanGrant, ShellFree, Arbiter!Queue
    <3> QED
      BY <3>1
  <2> QED
    BY <2>3, <2>4
<1>2. CASE HandleRelease
  <2>1. PICK l \in Calls : l = Head(d2c).lease
    BY <1>2, <1>b DEF HandleRelease
  <2>2. CASE active = l
    <3>1. Promote(<<CMsg("ShellLeaseReleased", l)>>) /\ UNCHANGED pending
      BY <1>2, <2>1, <2>2 DEF HandleRelease
    <3>2. Arbiter!Release
      BY <2>2, <3>1, NoLeaseAssumption DEF Promote, ShellFree, Arbiter!Release
    <3> QED
      BY <3>2
  <2>3. CASE active # l
    BY <1>2, <2>1, <2>3 DEF HandleRelease
  <2> QED
    BY <2>2, <2>3
<1>3. CASE StartUserCommand
  <2>1. Arbiter!StartUser
    BY <1>3 DEF StartUserCommand, ShellFree, Arbiter!StartUser
  <2> QED
    BY <2>1
<1>4. CASE PressCtrlC \/ CommandOver
  <2>1. Arbiter!Stop
    BY <1>4 DEF PressCtrlC, CommandOver, Complete, GiveUp, ShellFree, Arbiter!Stop
  <2> QED
    BY <2>1
<1>5. CASE PromoteNext
  <2>1. CASE active = NoLease
    <3>1. Promote(<<>>) /\ UNCHANGED pending
      BY <1>5, <2>1 DEF PromoteNext
    <3>2. Arbiter!GrantNext \/ UNCHANGED <<active, queue, pending>>
      BY <2>1, <3>1 DEF Promote, ShellFree, Arbiter!GrantNext
    <3> QED
      BY <3>2
  <2>2. CASE active # NoLease
    BY <1>5, <2>2 DEF PromoteNext
  <2> QED
    BY <2>1, <2>2
<1>6. CASE StartLeased
  <2>1. Arbiter!StartHolder
    BY <1>6, <1>a, NoLeaseAssumption
    DEF StartLeased, StartReady, ShellFree, ClientTypeOK, ClientInv, Arbiter!StartHolder
  <2> QED
    BY <2>1
<1>7. CASE \/ HandleExecute \/ HandleCancel \/ PressEsc \/ Wake \/ NotComplete
           \/ ShellBusy \/ StartFailed
  BY <1>7 DEF HandleExecute, HandleCancel, PressEsc, Wake, NotComplete, ShellBusy,
              StartFailed, StartReady
<1> QED
  BY <1>1, <1>2, <1>3, <1>4, <1>5, <1>6, <1>7
  DEF ClientStep, HandleLeaseMessage, UserStep, StartStep

\* Whatever the daemon, the link and the user do, the client arbitrates its shell:
\* leases are exclusive and granted in the order of the requests, only while the
\* shell is idle, and a leased command starts only under its own lease
\* (lease.rs:13-63 and 83-114, event_loop.rs:453-506).
THEOREM ClientArbitrates == Spec => ArbiterSpec
<1>1. Init => Arbiter!Init
  BY DEF Init, ClientInit, Arbiter!Init
<1>2. ASSUME IInv, OwnershipInv, [Next]_vars
      PROVE  [Arbiter!Next]_(Arbiter!vars)
  <2>1. CASE ClientStep
    BY <1>2, <2>1, ClientStepRefines DEF OwnershipInv
  <2>2. CASE UNCHANGED clientVars
    BY <2>2 DEF clientVars, Arbiter!vars
  <2>3. ClientStep \/ UNCHANGED clientVars
    BY <1>2 DEF Next, Disconnect, DaemonStop, Reconnect, vars
  <2> QED
    BY <2>1, <2>2, <2>3
<1> QED
  BY <1>1, <1>2, Inductive, Ownership, PTL DEF Spec, ArbiterSpec, Arbiter!Spec
=============================================================================
