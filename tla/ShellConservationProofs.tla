---------------------- MODULE ShellConservationProofs ----------------------
(***************************************************************************)
(* Proofs that the lease protocol loses nothing on a connection that       *)
(* lives: RequestConserved, CommandConserved and ReportReachesItsCall.     *)
(***************************************************************************)
EXTENDS ShellLeaseProofs

\* What ConservationInv says of one call.
Kept(c) == WaitInv(c) /\ CourseInv(c) /\ RequestHeld(c) /\ CommandHeld(c)

----------------------------------------------------------------------------
(* Channels.                                                               *)

\* A message taken from a channel is its head; the others stay.
LEMMA RangeSplit ==
    ASSUME NEW S, NEW q \in Seq(S), q # <<>>, NEW m \in Range(q), m # Head(q)
    PROVE  m \in Range(Tail(q))
<1>1. PICK i \in 1 .. Len(q) : q[i] = m
  BY DEF Range
<1>2. i - 1 \in 1 .. Len(Tail(q)) /\ Tail(q)[i - 1] = m
  BY <1>1
<1>3. DOMAIN Tail(q) = 1 .. Len(Tail(q))
  OBVIOUS
<1> QED
  BY <1>2, <1>3 DEF Range

\* A frame sent on a live connection is on its way, behind those that are.
LEMMA RangeKeptBySend ==
    ASSUME d2c \in Seq(DaemonMessage), NEW c \in Calls,
           NEW type \in {"AcquireShellLease", "ExecuteLeasedCommand",
                         "ReleaseShellLease", "CancelLeasedCommand"},
           SendToClient(c, type)
    PROVE  /\ Range(d2c) \subseteq Range(d2c')
           /\ Reachable(c) => InTransit(d2c, DMsg(type, c))'
<1>1. DMsg(type, c) \in DaemonMessage
  BY DEF DMsg, DaemonMessage
<1>2. CASE Reachable(c)
  <2>1. Range(d2c') = Range(d2c) \cup {DMsg(type, c)}
    BY <1>1, <1>2, RangeOfAppend DEF SendToClient
  <2>2. InTransit(d2c, DMsg(type, c))'
    BY <2>1 DEF InTransit, DMsg
  <2> QED
    BY <2>1, <2>2
<1>3. CASE ~ Reachable(c)
  BY <1>3 DEF SendToClient
<1> QED
  BY <1>2, <1>3

\* Frames the client sends add up to what was there, unless the link is broken.
LEMMA RangeToDaemonExact ==
    ASSUME NEW S, c2d \in Seq(S), NEW f \in Seq(S), ToDaemon(f)
    PROVE  /\ Range(c2d) \subseteq Range(c2d')
           /\ Range(c2d') \subseteq Range(c2d) \cup Range(f)
           /\ up => Range(f) \subseteq Range(c2d')
BY RangeConcatenation DEF ToDaemon

----------------------------------------------------------------------------
(* Steps of the daemon.                                                    *)

\* The part of a call's state that the daemon keeps for it stays as it is.
Idles(c) ==
    /\ ops'[c] = ops[c] /\ pc'[c] = pc[c] /\ leaseRx'[c] = leaseRx[c]
    /\ outcome'[c] = outcome[c] /\ timer'[c] = timer[c] /\ relay'[c] = relay[c]

\* A message whose loss a waiting call would notice.
Awaited(c, m) ==
    \/ m = CMsg("ShellLeaseAcquired", c)
    \/ m \in {Reply("CommandStarted", c, c), Reply("CommandFailed", c, c)}

\* No frame to the client is taken and none of the command of c is added; of the
\* frames to the daemon only one that c does not wait for is gone.
ChannelsSpare(c) ==
    /\ Range(d2c) \subseteq Range(d2c')
    /\ InTransit(d2c, DMsg("ExecuteLeasedCommand", c))' =>
          InTransit(d2c, DMsg("ExecuteLeasedCommand", c))
    /\ Range(c2d') \subseteq Range(c2d)
    /\ \A m \in Range(c2d) : Awaited(c, m) => m \in Range(c2d')

\* A step that takes no call back and sends no early frame keeps CourseInv.
LEMMA CourseKept ==
    ASSUME NEW c \in Calls, CourseInv(c), UNCHANGED clientVars,
           pc[c] \in {"result"} \cup Past => pc'[c] \in {"result"} \cup Past,
           pc[c] \in Past => pc'[c] \in Past,
           InTransit(d2c, DMsg("ExecuteLeasedCommand", c))' =>
               \/ InTransit(d2c, DMsg("ExecuteLeasedCommand", c))
               \/ pc'[c] \in {"result"} \cup Past,
           Range(c2d') \subseteq Range(c2d)
    PROVE  CourseInv(c)'
<1>1. GivenBack(c)' => GivenBack(c)
  BY DEF GivenBack
<1>2. Stray(c)' => Stray(c)
  BY DEF Stray
<1>3. (ready = c \/ pending = c)' => ready = c \/ pending = c
  BY DEF clientVars
<1> QED
  BY <1>1, <1>2, <1>3 DEF CourseInv, Past

\* A step that concerns other calls keeps every promise made to this one.
LEMMA IdleKept ==
    ASSUME NEW c \in Calls, Kept(c), Idles(c), ChannelsSpare(c), UNCHANGED <<linkVars, clientVars>>
    PROVE  Kept(c)'
<1>1. UNCHANGED <<conn, up, active, queue, ready, pending>>
  BY DEF linkVars, clientVars
<1>2. WaitInv(c)'
  BY DEF Kept, WaitInv, Idles
<1>3. CourseInv(c)'
  BY CourseKept DEF Kept, Idles, ChannelsSpare
<1>4. RequestHeld(c)'
  <2>1. Reachable(c)' = Reachable(c) /\ CMsg("ShellLeaseAcquired", c)' = CMsg("ShellLeaseAcquired", c)
    BY <1>1 DEF Idles, Reachable, CMsg
  <2> QED
    BY <1>1, <2>1 DEF Kept, RequestHeld, Idles, ChannelsSpare, Awaited, InTransit, DMsg
<1>5. CommandHeld(c)'
  <2>1. /\ Reachable(c)' = Reachable(c)
        /\ \A type : Reply(type, c, c)' = Reply(type, c, c)
    BY <1>1 DEF Idles, Reachable, Reply
  <2>2. \A type \in {"CommandStarted", "CommandFailed"} :
            InTransit(c2d, Reply(type, c, c)) => InTransit(c2d, Reply(type, c, c))'
    BY <2>1 DEF ChannelsSpare, Awaited, InTransit
  <2>3. InTransit(d2c, DMsg("ExecuteLeasedCommand", c)) =>
            InTransit(d2c, DMsg("ExecuteLeasedCommand", c))'
    BY DEF ChannelsSpare, InTransit, DMsg
  <2> QED
    BY <1>1, <2>1, <2>2, <2>3 DEF Kept, CommandHeld, Idles
<1> QED
  BY <1>2, <1>3, <1>4, <1>5 DEF Kept

\* The call that moves: what it sends and where it goes keep its own promises.
LEMMA CallStepKept ==
    ASSUME IInv, UNCHANGED <<linkVars, clientVars>>, NEW d \in Calls, Kept(d),
           \/ CallStep(d) \/ Abort(d) \/ TimerStep(d)
           \/ \E r \in sessions \cup {cancelling} : Register(d, r)
    PROVE  Kept(d)'
<1>a. /\ d2c \in Seq(DaemonMessage) /\ pc \in [Calls -> PC] /\ pc[d] \in PC
      /\ ops \in [Calls -> Op \cup {NoOp}] /\ leaseRx \in [Calls -> {"pending", "fired", "dropped"}]
      /\ outcome \in [Calls -> Outcome \cup {"pending"}]
      /\ timer \in [Calls -> {"off", "armed", "firing"}]
      /\ relay \in [Calls -> 0 .. MaxConns] /\ CallInv(d)
  BY DEF IInv, TypeOK, DaemonTypeOK
<1>b. /\ WaitInv(d) /\ CourseInv(d) /\ RequestHeld(d) /\ CommandHeld(d)
      /\ UNCHANGED <<conn, up, active, queue, ready, pending>>
  BY DEF Kept, linkVars, clientVars
\* A frame that is new is the one that was sent.
<1>c. ASSUME NEW type \in {"AcquireShellLease", "ExecuteLeasedCommand",
                          "ReleaseShellLease", "CancelLeasedCommand"},
             SendToClient(d, type)
      PROVE  /\ InTransit(d2c, DMsg("ExecuteLeasedCommand", d))' =>
                    \/ InTransit(d2c, DMsg("ExecuteLeasedCommand", d))
                    \/ type = "ExecuteLeasedCommand"
             /\ Range(d2c) \subseteq Range(d2c')
             /\ Reachable(d) => InTransit(d2c, DMsg(type, d))'
  <2>1. Range(d2c') \subseteq Range(d2c) \cup {DMsg(type, d)}
    BY <1>a, <1>c, RangeSend
  <2> QED
    BY <1>a, <1>c, <2>1, RangeKeptBySend, DMsgInjective DEF InTransit
\* A call that waits for nothing is promised nothing.
<1>d. ASSUME pc'[d] \notin {"acquire", "lease", "execute", "result"},
             UNCHANGED leaseRx, ops'[d] \in {ops[d], NoOp},
             pc[d] \in {"result"} \cup Past => pc'[d] \in Past,
             InTransit(d2c, DMsg("ExecuteLeasedCommand", d))' =>
                 \/ InTransit(d2c, DMsg("ExecuteLeasedCommand", d))
                 \/ pc'[d] \in {"result"} \cup Past,
             UNCHANGED c2d
      PROVE  Kept(d)'
  <2>1. WaitInv(d)'
    BY <1>b, <1>d DEF WaitInv
  <2>2. CourseInv(d)'
    BY <1>b, <1>d, CourseKept
  <2> QED
    BY <1>d, <2>1, <2>2 DEF Kept, RequestHeld, CommandHeld
<1>1. ASSUME NEW r, Register(d, r) PROVE Kept(d)'
  <2>1. /\ pc[d] = "idle" /\ pc'[d] = "acquire" /\ ops'[d] = FreshOp
        /\ UNCHANGED <<c2d, d2c, leaseRx, outcome, timer>>
    BY <1>1, <1>a DEF Register, Goto, PC
  <2>2. leaseRx[d] = "pending"
    BY <1>a, <2>1 DEF CallInv
  <2>3. WaitInv(d)'
    BY <2>1, <2>2 DEF WaitInv, FreshOp
  <2>4. CourseInv(d)'
    BY <1>b, <2>1, CourseKept DEF Past, InTransit
  <2> QED
    BY <2>1, <2>3, <2>4 DEF Kept, RequestHeld, CommandHeld
<1>2. CASE SendAcquire(d)
  <2>1. /\ pc[d] = "acquire" /\ SendToClient(d, "AcquireShellLease")
        /\ pc'[d] = "lease" \/ (~ Reachable(d) /\ pc'[d] = "returned")
        /\ UNCHANGED <<c2d, ops, leaseRx, outcome, timer, relay>>
    BY <1>2, <1>a DEF SendAcquire, Goto
  <2>2. Reachable(d)' = Reachable(d)
    BY <1>b, <2>1 DEF Reachable
  <2>3. WaitInv(d)'
    BY <1>b, <2>1 DEF WaitInv
  <2>4. CourseInv(d)'
    BY <1>b, <1>c, <2>1, CourseKept DEF Past
  <2>5. RequestHeld(d)'
    BY <1>c, <2>1, <2>2 DEF RequestHeld, InTransit, DMsg
  <2> QED
    BY <2>1, <2>3, <2>4, <2>5 DEF Kept, CommandHeld
<1>3. CASE LeaseGranted(d)
  <2>1. /\ pc[d] = "lease" /\ pc'[d] = "execute" /\ leaseRx[d] = "fired"
        /\ ops'[d] = IF ops[d] = NoOp THEN NoOp ELSE WithCmd(ops[d], "Sent")
        /\ UNCHANGED <<c2d, d2c, leaseRx, outcome, timer, relay>>
    BY <1>3, <1>a DEF LeaseGranted, Goto
  <2>2. ops[d] # NoOp => ops[d] \in Op /\ ops'[d].cmd = "Sent" /\ ops'[d].leaseTx = ops[d].leaseTx
    BY <1>a, <2>1, OpUpdates DEF CommandPhase, LeasePhase
  <2>3. outcome[d] = "pending" => ops[d] # NoOp
    BY <1>a, <2>1 DEF CallInv
  <2>4. WaitInv(d)'
    BY <1>b, <2>1, <2>2, <2>3 DEF WaitInv
  <2>5. CourseInv(d)'
    BY <1>b, <2>1, CourseKept DEF Past, InTransit
  <2> QED
    BY <2>1, <2>4, <2>5 DEF Kept, RequestHeld, CommandHeld
<1>4. CASE LeaseCancelled(d)
  <2>1. /\ pc[d] = "lease" /\ pc'[d] = "returned" /\ ops'[d] = NoOp
        /\ UNCHANGED <<c2d, d2c, leaseRx>>
    BY <1>4, <1>a DEF LeaseCancelled, Goto
  <2> QED
    BY <1>d, <2>1 DEF Past, InTransit
<1>5. CASE SendExecute(d)
  <2>1. /\ pc[d] = "execute" /\ SendToClient(d, "ExecuteLeasedCommand")
        /\ pc'[d] = "result" \/ (~ Reachable(d) /\ pc'[d] = "returned")
        /\ UNCHANGED <<c2d, ops, leaseRx, outcome, timer, relay>>
    BY <1>5, <1>a DEF SendExecute, Goto
  <2>2. Reachable(d)' = Reachable(d)
    BY <1>b, <2>1 DEF Reachable
  <2>3. WaitInv(d)'
    BY <1>b, <2>1 DEF WaitInv
  <2>4. CourseInv(d)'
    BY <1>b, <1>c, <2>1, CourseKept DEF Past
  <2>5. CommandHeld(d)'
    BY <1>c, <2>1, <2>2 DEF CommandHeld, InTransit, DMsg
  <2> QED
    BY <2>1, <2>3, <2>4, <2>5 DEF Kept, RequestHeld
<1>6. CASE SendRelease(d)
  <2>1. /\ pc[d] = "result" /\ pc'[d] = "cleanup" /\ SendToClient(d, "ReleaseShellLease")
        /\ UNCHANGED <<c2d, ops, leaseRx>>
    BY <1>6, <1>a DEF SendRelease, Goto
  <2> QED
    BY <1>c, <1>d, <2>1 DEF Past
<1>7. CASE CleanUp(d)
  <2>1. /\ pc[d] = "cleanup" /\ pc'[d] = "returned" /\ ops'[d] = NoOp
        /\ UNCHANGED <<c2d, d2c, leaseRx>>
    BY <1>7, <1>a DEF CleanUp, Goto
  <2> QED
    BY <1>d, <2>1 DEF Past, InTransit
<1>8. CASE Abort(d)
  <2>1. /\ pc[d] # "idle" /\ pc'[d] = "aborted" /\ UNCHANGED <<c2d, d2c, leaseRx, ops>>
    BY <1>8, <1>a DEF Abort, Goto, Live
  <2> QED
    BY <1>d, <2>1 DEF Past, InTransit
<1>9. CASE TimerExpire(d)
  <2>1. /\ ops[d] # NoOp /\ ops[d].cmd = "Started" /\ ops'[d] = Resolved(ops[d], "TimedOut")
        /\ outcome'[d] = IF ops[d].resultTx THEN "TimedOut" ELSE outcome[d]
        /\ UNCHANGED <<c2d, d2c, leaseRx, pc, relay>>
    BY <1>9, <1>a DEF TimerExpire
  <2>2. ops[d] \in Op /\ ops'[d].leaseTx = ops[d].leaseTx
    BY <1>a, <2>1, OpUpdates DEF CommandPhase, LeasePhase
  <2>3. pc[d] \in {"lease", "execute", "result"} => outcome'[d] # "pending"
    BY <1>a, <2>1 DEF CallInv
  <2>4. pc[d] # "acquire" /\ pc[d] # "lease"
    BY <1>a, <2>1 DEF CallInv
  <2>5. WaitInv(d)'
    BY <1>b, <2>1, <2>2, <2>3, <2>4 DEF WaitInv
  <2>6. CourseInv(d)'
    BY <1>b, <2>1, CourseKept DEF InTransit
  <2> QED
    BY <2>1, <2>3, <2>4, <2>5, <2>6 DEF Kept, RequestHeld, CommandHeld
<1>10. CASE SendCancel(d)
  <2>1. /\ SendToClient(d, "CancelLeasedCommand") /\ timer[d] = "firing" /\ timer'[d] = "off"
        /\ UNCHANGED <<c2d, ops, pc, leaseRx, outcome, relay>>
    BY <1>10, <1>a DEF SendCancel
  <2>2. /\ Reachable(d)' = Reachable(d)
        /\ CMsg("ShellLeaseAcquired", d)' = CMsg("ShellLeaseAcquired", d)
        /\ \A type : Reply(type, d, d)' = Reply(type, d, d)
    BY <1>b, <2>1 DEF Reachable, CMsg, Reply
  <2>3. WaitInv(d)'
    BY <1>b, <2>1 DEF WaitInv
  <2>4. CourseInv(d)'
    BY <1>b, <1>c, <2>1, CourseKept
  <2>5. RequestHeld(d)'
    BY <1>b, <1>c, <2>1, <2>2 DEF RequestHeld, InTransit, DMsg
  <2>6. CommandHeld(d)'
    BY <1>b, <1>c, <2>1, <2>2 DEF CommandHeld, InTransit, DMsg
  <2> QED
    BY <2>3, <2>4, <2>5, <2>6 DEF Kept
<1> QED
  BY <1>1, <1>2, <1>3, <1>4, <1>5, <1>6, <1>7, <1>8, <1>9, <1>10 DEF CallStep, TimerStep

\* Another call's step leaves a call alone: it touches its own entries and sends
\* frames of its own.
LEMMA CallStepIdles ==
    ASSUME IInv, UNCHANGED <<linkVars, clientVars>>, NEW d \in Calls, NEW c \in Calls, c # d,
           \/ CallStep(d) \/ Abort(d) \/ TimerStep(d)
           \/ \E r \in sessions \cup {cancelling} : Register(d, r)
    PROVE  Idles(c) /\ ChannelsSpare(c)
<1>a. /\ d2c \in Seq(DaemonMessage) /\ pc \in [Calls -> PC]
      /\ ops \in [Calls -> Op \cup {NoOp}] /\ leaseRx \in [Calls -> {"pending", "fired", "dropped"}]
      /\ outcome \in [Calls -> Outcome \cup {"pending"}]
      /\ timer \in [Calls -> {"off", "armed", "firing"}]
      /\ relay \in [Calls -> 0 .. MaxConns]
  BY DEF IInv, TypeOK, DaemonTypeOK
<1>1. Idles(c)
  BY <1>a
  DEF Idles, CallStep, SendAcquire, LeaseGranted, LeaseCancelled, SendExecute, SendRelease, CleanUp,
      Abort, TimerStep, TimerExpire, SendCancel, Register, Goto
<1>2. UNCHANGED c2d
  BY DEF CallStep, SendAcquire, LeaseGranted, LeaseCancelled, SendExecute, SendRelease, CleanUp,
         Abort, TimerStep, TimerExpire, SendCancel, Register
<1>3. \/ UNCHANGED d2c
      \/ \E type \in {"AcquireShellLease", "ExecuteLeasedCommand",
                      "ReleaseShellLease", "CancelLeasedCommand"} : SendToClient(d, type)
  BY DEF CallStep, SendAcquire, LeaseGranted, LeaseCancelled, SendExecute, SendRelease, CleanUp,
         Abort, TimerStep, TimerExpire, SendCancel, Register
<1>4. /\ Range(d2c) \subseteq Range(d2c')
      /\ InTransit(d2c, DMsg("ExecuteLeasedCommand", c))' =>
            InTransit(d2c, DMsg("ExecuteLeasedCommand", c))
  <2>1. ASSUME NEW type \in {"AcquireShellLease", "ExecuteLeasedCommand",
                             "ReleaseShellLease", "CancelLeasedCommand"},
               SendToClient(d, type)
        PROVE  /\ Range(d2c) \subseteq Range(d2c')
               /\ Range(d2c') \subseteq Range(d2c) \cup {DMsg(type, d)}
    BY <1>a, <2>1, RangeSend, RangeKeptBySend
  <2> QED
    BY <1>3, <2>1, DMsgInjective DEF InTransit
<1> QED
  BY <1>1, <1>2, <1>4 DEF ChannelsSpare

----------------------------------------------------------------------------
(* The daemon's main loop.                                                 *)

\* A handler moves no call.  What it has to show is that a call which still waits
\* afterwards was not waiting for the message it took.
LEMMA HandledKept ==
    ASSUME NEW c \in Calls, Kept(c), UNCHANGED <<linkVars, clientVars, d2c, pc, relay>>, WaitInv(c)',
           leaseRx'[c] = "pending" => leaseRx[c] = "pending",
           outcome'[c] = "pending" => outcome[c] = "pending",
           outcome'[c] = "pending" /\ timer[c] = "armed" /\ pc[c] = "result" => timer'[c] = "armed",
           Range(c2d') \subseteq Range(c2d),
           \A m \in Range(c2d) :
               m \in Range(c2d') \/
               /\ pc[c] = "lease" /\ leaseRx'[c] = "pending" /\ Reachable(c) =>
                     m # CMsg("ShellLeaseAcquired", c)
               /\ pc[c] = "result" /\ outcome'[c] = "pending" /\ Reachable(c) =>
                     \/ timer'[c] = "armed"
                     \/ m \notin {Reply("CommandStarted", c, c), Reply("CommandFailed", c, c)}
    PROVE  Kept(c)'
<1>1. UNCHANGED <<conn, up, active, queue, ready, pending>>
  BY DEF linkVars, clientVars
<1>2. CourseInv(c)'
  BY CourseKept DEF Kept, InTransit
<1>3. /\ Reachable(c)' = Reachable(c)
      /\ CMsg("ShellLeaseAcquired", c)' = CMsg("ShellLeaseAcquired", c)
      /\ \A type : Reply(type, c, c)' = Reply(type, c, c)
  BY <1>1 DEF Reachable, CMsg, Reply
<1>4. RequestHeld(c)'
  BY <1>1, <1>3 DEF Kept, RequestHeld, InTransit, DMsg
<1>5. CommandHeld(c)'
  <2>1. ASSUME NEW type \in {"CommandStarted", "CommandFailed"}, InTransit(c2d, Reply(type, c, c)),
               pc[c] = "result", outcome'[c] = "pending", Reachable(c), timer'[c] # "armed"
        PROVE  InTransit(c2d, Reply(type, c, c))'
    BY <1>3, <2>1 DEF InTransit
  <2>2. InTransit(d2c, DMsg("ExecuteLeasedCommand", c)) =>
            InTransit(d2c, DMsg("ExecuteLeasedCommand", c))'
    BY DEF InTransit, DMsg
  <2> QED
    BY <1>1, <1>3, <2>1, <2>2 DEF Kept, CommandHeld
<1> QED
  BY <1>2, <1>4, <1>5 DEF Kept

\* Emptying a session's map leaves no call of it waiting.
LEMMA CancelAllWaits ==
    ASSUME IInv, NEW c \in Calls, WaitInv(c), NEW r, CancelAll(r), UNCHANGED pc
    PROVE  /\ WaitInv(c)'
           /\ leaseRx'[c] = "pending" => leaseRx[c] = "pending"
           /\ outcome'[c] = "pending" => outcome[c] = "pending"
           /\ outcome'[c] = "pending" /\ timer[c] = "armed" /\ pc[c] = "result" => timer'[c] = "armed"
<1>a. CallInv(c)
  BY DEF IInv
<1>1. CASE relay[c] = r /\ ops[c] # NoOp
  <2>1. /\ ops'[c] = NoOp
        /\ outcome'[c] = IF ops[c].resultTx THEN "Cancelled" ELSE outcome[c]
        /\ leaseRx'[c] = IF ops[c].leaseTx THEN "dropped" ELSE leaseRx[c]
    BY <1>1 DEF CancelAll
  <2> QED
    BY <1>a, <1>1, <2>1 DEF CallInv, WaitInv
<1>2. CASE ~ (relay[c] = r /\ ops[c] # NoOp)
  <2>1. ops'[c] = ops[c] /\ outcome'[c] = outcome[c] /\ leaseRx'[c] = leaseRx[c] /\ timer'[c] = timer[c]
    BY <1>2 DEF CancelAll
  <2> QED
    BY <2>1 DEF WaitInv
<1> QED
  BY <1>1, <1>2

\* Whatever message the main loop handles, a call that waits keeps waiting for
\* something that is under way.
LEMMA DaemonHandleKept ==
    ASSUME IInv, SessionInv, UNCHANGED <<linkVars, clientVars>>, DaemonHandle,
           NEW c \in Calls, Kept(c)
    PROVE  Kept(c)'
<1>a. /\ c2d \in Seq(Attributed) /\ CallInv(c) /\ WaitInv(c) /\ CourseInv(c)
      /\ ops \in [Calls -> Op \cup {NoOp}] /\ leaseRx \in [Calls -> {"pending", "fired", "dropped"}]
      /\ outcome \in [Calls -> Outcome \cup {"pending"}]
      /\ timer \in [Calls -> {"off", "armed", "firing"}]
  BY DEF IInv, TypeOK, DaemonTypeOK, Kept
<1> DEFINE h == Head(c2d)
\* What is lost is the head.
<1>b. ASSUME NEW type, Receive(type)
      PROVE  /\ h \in Attributed /\ h \in Range(c2d) /\ h.type = type
             /\ Range(c2d') \subseteq Range(c2d)
             /\ \A m \in Range(c2d) : m # h => m \in Range(c2d')
  <2>1. c2d # <<>> /\ c2d' = Tail(c2d) /\ h.type = type
    BY <1>b DEF Receive
  <2> QED
    BY <1>a, <2>1, RangeOfTail, RangeSplit
\* A message of the live connection about a call with an op is about that op.
<1>c. ASSUME Reachable(c), h.from = conn, ops[c] # NoOp PROVE HasOp(c)
  BY <1>c DEF HasOp, Reachable, SessionInv
<1>d. /\ CMsg("ShellLeaseAcquired", c).type = "ShellLeaseAcquired"
      /\ CMsg("ShellLeaseAcquired", c).lease = c /\ CMsg("ShellLeaseAcquired", c).from = conn
      /\ \A type : /\ Reply(type, c, c).type = type /\ Reply(type, c, c).lease = c
                   /\ Reply(type, c, c).exec = c /\ Reply(type, c, c).from = conn
  BY DEF CMsg, Reply
<1> HIDE DEF h
<1>1. CASE OnLeaseAcquired
  <2>1. /\ Receive("ShellLeaseAcquired") /\ UNCHANGED <<d2c, pc, relay, outcome, timer>>
        /\ IF HasOp(h.lease) /\ ops[h.lease].lease \in {"Requested", "Queued"}
           THEN /\ ops' = [ops EXCEPT ![h.lease] = Granted(@)]
                /\ leaseRx' = IF ops[h.lease].leaseTx
                              THEN [leaseRx EXCEPT ![h.lease] = "fired"] ELSE leaseRx
           ELSE UNCHANGED <<ops, leaseRx>>
    BY <1>1 DEF OnLeaseAcquired, h
  <2>2. CASE h.lease = c /\ HasOp(c) /\ ops[c].lease \in {"Requested", "Queued"}
    <3>1. ops[c] \in Op
      BY <1>a, <2>2 DEF HasOp
    <3>2. /\ ops'[c] = Granted(ops[c])
          /\ leaseRx'[c] = IF ops[c].leaseTx THEN "fired" ELSE leaseRx[c]
      BY <1>a, <2>1, <2>2
    <3>3. ops'[c].cmd = ops[c].cmd /\ ~ ops'[c].leaseTx
      BY <3>1, <3>2 DEF Granted, Op
    <3>4. WaitInv(c)'
      BY <1>a, <2>1, <3>2, <3>3 DEF WaitInv, CallInv
    <3>5. pc[c] = "lease" => leaseRx'[c] # "pending"
      BY <1>a, <3>2 DEF CallInv
    <3>6. leaseRx'[c] = "pending" => leaseRx[c] = "pending"
      BY <3>2
    <3> QED
      BY <1>b, <1>d, <2>1, <3>4, <3>5, <3>6, HandledKept
  <2>3. CASE ~ (h.lease = c /\ HasOp(c) /\ ops[c].lease \in {"Requested", "Queued"})
    <3>1. ops'[c] = ops[c] /\ leaseRx'[c] = leaseRx[c]
      BY <1>a, <2>1, <2>3
    <3>2. WaitInv(c)'
      BY <1>a, <2>1, <3>1 DEF WaitInv
    <3>3. pc[c] = "lease" /\ leaseRx'[c] = "pending" /\ Reachable(c) =>
              h # CMsg("ShellLeaseAcquired", c)
      BY <1>a, <1>c, <1>d, <2>3, <3>1 DEF WaitInv, CallInv
    <3> QED
      BY <1>b, <1>d, <2>1, <3>1, <3>2, <3>3, HandledKept
  <2> QED
    BY <2>2, <2>3
<1>2. CASE OnLeaseQueued \/ OnLeaseReleased
  <2>1. /\ Receive("ShellLeaseQueued") \/ Receive("ShellLeaseReleased")
        /\ UNCHANGED <<d2c, pc, relay, outcome, timer, leaseRx>>
    BY <1>2 DEF OnLeaseQueued, OnLeaseReleased
  <2>2. CASE ops'[c] = ops[c]
    <3>1. WaitInv(c)'
      BY <1>a, <2>1, <2>2 DEF WaitInv
    <3> QED
      BY <1>b, <1>d, <2>1, <3>1, HandledKept
  <2>3. CASE ops'[c] # ops[c]
    <3>1. /\ h.lease = c /\ HasOp(c)
          /\ \/ ops'[c] = WithLease(ops[c], "Queued")
             \/ h.type = "ShellLeaseReleased" /\ ops'[c] = WithLease(ops[c], "Released")
      <4>1. CASE OnLeaseQueued
        <5>1. ops' = IF HasOp(h.lease) /\ ops[h.lease].lease = "Requested"
                     THEN [ops EXCEPT ![h.lease] = WithLease(@, "Queued")] ELSE ops
          BY <4>1 DEF OnLeaseQueued, h
        <5> QED
          BY <1>a, <2>3, <5>1
      <4>2. CASE OnLeaseReleased
        <5>1. /\ ops' = IF HasOp(h.lease) /\ ops[h.lease].lease \notin TerminalLease
                        THEN [ops EXCEPT ![h.lease] = WithLease(@, "Released")] ELSE ops
              /\ Receive("ShellLeaseReleased")
          BY <4>2 DEF OnLeaseReleased, h
        <5> QED
          BY <1>a, <1>b, <2>3, <5>1
      <4> QED
        BY <1>2, <4>1, <4>2
    <3>2. ops[c] \in Op
      BY <1>a, <3>1 DEF HasOp
    <3>3. /\ ops'[c].cmd = ops[c].cmd /\ ops'[c].leaseTx = ops[c].leaseTx
          /\ ops'[c].lease = "Queued" \/ h.type = "ShellLeaseReleased"
      BY <3>1, <3>2 DEF WithLease, Op
    <3>4. h.type = "ShellLeaseReleased" => pc[c] \in Past
      BY <1>a, <1>b, <2>1, <3>1 DEF CourseInv, GivenBack
    <3>5. WaitInv(c)'
      BY <1>a, <2>1, <3>2, <3>3, <3>4, OpFields DEF WaitInv, Past
    <3> QED
      BY <1>b, <1>d, <2>1, <3>5, HandledKept
  <2> QED
    BY <2>2, <2>3
<1>3. CASE OnCommandStarted
  <2>1. /\ Receive("CommandStarted") /\ UNCHANGED <<d2c, pc, relay, outcome, leaseRx>>
        /\ IF HasOp(h.lease) /\ ops[h.lease].cmd = "Sent" /\ h.exec = h.lease
           THEN /\ ops'   = [ops EXCEPT ![h.lease] = WithCmd(@, "Started")]
                /\ timer' = [timer EXCEPT ![h.lease] = "armed"]
           ELSE UNCHANGED <<ops, timer>>
    BY <1>3 DEF OnCommandStarted, h
  <2>2. CASE h.lease = c /\ HasOp(c) /\ ops[c].cmd = "Sent" /\ h.exec = c
    <3>1. ops[c] \in Op
      BY <1>a, <2>2 DEF HasOp
    <3>2. ops'[c] = WithCmd(ops[c], "Started") /\ timer'[c] = "armed"
      BY <1>a, <2>1, <2>2
    <3>3. /\ ops'[c].lease = ops[c].lease /\ ops'[c].leaseTx = ops[c].leaseTx
          /\ ops'[c].cmd = "Started"
      BY <3>1, <3>2 DEF WithCmd, Op
    <3>4. WaitInv(c)'
      BY <1>a, <2>1, <3>1, <3>3, OpFields DEF WaitInv
    <3> QED
      BY <1>b, <1>d, <2>1, <3>2, <3>4, HandledKept
  <2>3. CASE ~ (h.lease = c /\ HasOp(c) /\ ops[c].cmd = "Sent" /\ h.exec = c)
    <3>1. ops'[c] = ops[c] /\ timer'[c] = timer[c]
      BY <1>a, <2>1, <2>3
    <3>2. WaitInv(c)'
      BY <1>a, <2>1, <3>1 DEF WaitInv
    <3>3. pc[c] = "result" /\ outcome'[c] = "pending" /\ Reachable(c) =>
              \/ timer'[c] = "armed"
              \/ h \notin {Reply("CommandStarted", c, c), Reply("CommandFailed", c, c)}
      BY <1>a, <1>c, <1>d, <2>1, <2>3, <3>1 DEF WaitInv, CallInv
    <3> QED
      BY <1>b, <1>d, <2>1, <3>1, <3>2, <3>3, HandledKept
  <2> QED
    BY <2>2, <2>3
<1>4. ASSUME NEW type \in {"CommandCompleted", "CommandFailed", "CommandCancelled"},
             NEW result \in Outcome, Resolve(type, result)
      PROVE  Kept(c)'
  <2>1. /\ Receive(type) /\ UNCHANGED <<d2c, pc, relay, leaseRx>>
        /\ IF HasOp(h.lease)
           THEN /\ timer' = [timer EXCEPT ![h.lease] = "off"]
                /\ IF ops[h.lease].cmd \notin TerminalCommand \cup {"None"} /\ h.exec = h.lease
                   THEN /\ ops' = [ops EXCEPT ![h.lease] = Resolved(@, result)]
                        /\ outcome' = IF ops[h.lease].resultTx
                                      THEN [outcome EXCEPT ![h.lease] = result] ELSE outcome
                   ELSE UNCHANGED <<ops, outcome>>
           ELSE UNCHANGED <<ops, outcome, timer>>
    BY <1>4 DEF Resolve, h
  <2>2. h \in CommandReply /\ h.lease \in {h.exec, NoLease}
    <3>1. h \in ClientMessage /\ h.type = type /\ (h \in CommandReply => h.lease \in {h.exec, NoLease})
      BY <1>b, <2>1 DEF Attributed
    <3> QED
      BY <3>1 DEF ClientMessage, LeaseReply, CancelRequest
  <2>3. CASE HasOp(c) /\ h.lease = c
    <3>1. ops[c] \in Op /\ h.exec = c
      BY <1>a, <2>2, <2>3, NoLeaseAssumption DEF HasOp
    <3>2. CASE ops[c].cmd \notin TerminalCommand \cup {"None"}
      <4>1. /\ ops'[c] = Resolved(ops[c], result)
            /\ outcome'[c] = IF ops[c].resultTx THEN result ELSE outcome[c]
        BY <1>a, <2>1, <2>3, <3>1, <3>2
      <4>2. ops'[c].leaseTx = ops[c].leaseTx /\ ops'[c].lease = ops[c].lease
        BY <3>1, <4>1 DEF Resolved, Op
      <4>3. pc[c] \in {"lease", "execute", "result"} => outcome'[c] # "pending"
        BY <1>a, <4>1 DEF CallInv, Outcome
      <4>4. WaitInv(c)'
        BY <1>a, <2>1, <3>1, <4>2, <4>3, OpFields DEF WaitInv
      <4>5. outcome'[c] = "pending" => outcome[c] = "pending"
        BY <4>1 DEF Outcome
      <4> QED
        BY <1>b, <1>d, <2>1, <4>3, <4>4, <4>5, HandledKept
    <3>3. CASE ops[c].cmd \in TerminalCommand \cup {"None"}
      <4>1. ops'[c] = ops[c] /\ outcome'[c] = outcome[c]
        BY <1>a, <2>1, <2>3, <3>3
      <4>2. WaitInv(c)'
        BY <1>a, <2>1, <4>1 DEF WaitInv
      <4>3. pc[c] = "result" => outcome[c] # "pending"
        BY <1>a, <3>3 DEF WaitInv, TerminalCommand
      <4> QED
        BY <1>b, <1>d, <2>1, <4>1, <4>2, <4>3, HandledKept
    <3> QED
      BY <3>2, <3>3
  <2>4. CASE ~ (HasOp(c) /\ h.lease = c)
    <3>1. ops'[c] = ops[c] /\ outcome'[c] = outcome[c] /\ timer'[c] = timer[c]
      BY <1>a, <2>1, <2>4
    <3>2. WaitInv(c)'
      BY <1>a, <2>1, <3>1 DEF WaitInv
    <3>3. pc[c] = "result" /\ outcome'[c] = "pending" /\ Reachable(c) =>
              h \notin {Reply("CommandStarted", c, c), Reply("CommandFailed", c, c)}
      BY <1>a, <1>c, <1>d, <2>4, <3>1 DEF CallInv
    <3> QED
      BY <1>b, <1>d, <2>1, <3>1, <3>2, <3>3, HandledKept
  <2> QED
    BY <2>3, <2>4
<1>5. CASE HandleCancelRequest
  <2>1. /\ Receive("CancelRequest") /\ UNCHANGED <<d2c, pc, relay>>
        /\ CancelAll(h.from) \/ UNCHANGED <<ops, leaseRx, outcome, timer>>
    BY <1>5 DEF HandleCancelRequest, h
  <2>2. CASE CancelAll(h.from)
    <3>1. /\ WaitInv(c)'
          /\ leaseRx'[c] = "pending" => leaseRx[c] = "pending"
          /\ outcome'[c] = "pending" => outcome[c] = "pending"
          /\ outcome'[c] = "pending" /\ timer[c] = "armed" /\ pc[c] = "result" => timer'[c] = "armed"
      BY <1>a, <2>1, <2>2, CancelAllWaits
    <3> QED
      BY <1>b, <1>d, <2>1, <3>1, HandledKept
  <2>3. CASE UNCHANGED <<ops, leaseRx, outcome, timer>>
    <3>1. WaitInv(c)'
      BY <1>a, <2>1, <2>3 DEF WaitInv
    <3> QED
      BY <1>b, <1>d, <2>1, <2>3, <3>1, HandledKept
  <2> QED
    BY <2>1, <2>2, <2>3
<1> QED
  BY <1>1, <1>2, <1>3, <1>4, <1>5
  DEF DaemonHandle, OnCommandCompleted, OnCommandFailed, OnCommandCancelled, Outcome

\* The same for every step of the daemon.
LEMMA DaemonStepKept ==
    ASSUME IInv, SessionInv, UNCHANGED <<linkVars, clientVars>>, DaemonStep,
           NEW c \in Calls, Kept(c)
    PROVE  Kept(c)'
<1>1. ASSUME NEW d \in Calls,
             \/ CallStep(d) \/ Abort(d) \/ TimerStep(d)
             \/ \E r \in sessions \cup {cancelling} : Register(d, r)
      PROVE  Kept(c)'
  BY <1>1, CallStepKept, CallStepIdles, IdleKept
<1>2. CASE DaemonHandle
  BY <1>2, DaemonHandleKept
<1>3. ASSUME NEW r \in sessions, CleanupStale(r) PROVE Kept(c)'
  <2>1. UNCHANGED <<d2c, c2d, pc, relay>> /\ CancelAll(r)
    BY <1>3 DEF CleanupStale
  <2>2. /\ WaitInv(c)'
        /\ leaseRx'[c] = "pending" => leaseRx[c] = "pending"
        /\ outcome'[c] = "pending" => outcome[c] = "pending"
        /\ outcome'[c] = "pending" /\ timer[c] = "armed" /\ pc[c] = "result" => timer'[c] = "armed"
    BY <2>1, CancelAllWaits DEF Kept
  <2> QED
    BY <2>1, <2>2, HandledKept
<1>4. CASE AbortAgent
  <2>1. UNCHANGED <<d2c, c2d, pc, relay, ops, leaseRx, outcome, timer>>
    BY <1>4 DEF AbortAgent
  <2> QED
    BY <2>1, IdleKept DEF Idles, ChannelsSpare, InTransit
<1> QED
  BY <1>1, <1>2, <1>3, <1>4 DEF DaemonStep

\* The session of the live connection is never cleaned up, and no session is of a
\* connection that is still to come.
LEMMA DaemonStepSession ==
    ASSUME IInv, SessionInv, UNCHANGED <<linkVars, clientVars>>, DaemonStep
    PROVE  SessionInv'
<1>a. /\ conn \in 1 .. MaxConns /\ UNCHANGED <<conn, up>>
      /\ relay \in [Calls -> 0 .. MaxConns] /\ sessions \in SUBSET (1 .. MaxConns)
      /\ cancelling \in 0 .. MaxConns
  BY DEF IInv, TypeOK, DaemonTypeOK, linkVars
<1>b. CASE UNCHANGED <<sessions, cancelling, relay>>
  BY <1>a, <1>b DEF SessionInv
<1>1. ASSUME NEW d \in Calls, NEW r \in sessions \cup {cancelling}, Register(d, r)
      PROVE  SessionInv'
  <2>1. UNCHANGED <<sessions, cancelling>> /\ relay' = [relay EXCEPT ![d] = r] /\ r <= conn
    BY <1>1 DEF Register, SessionInv
  <2> QED
    BY <1>a, <2>1 DEF SessionInv
<1>2. ASSUME NEW d \in Calls, CallStep(d) \/ Abort(d) \/ TimerStep(d)
      PROVE  SessionInv'
  <2>1. UNCHANGED <<sessions, cancelling, relay>>
    BY <1>2
    DEF CallStep, SendAcquire, LeaseGranted, LeaseCancelled, SendExecute, SendRelease, CleanUp,
        Abort, TimerStep, TimerExpire, SendCancel
  <2> QED
    BY <1>b, <2>1
<1>3. CASE HandleCancelRequest
  <2>1. UNCHANGED <<sessions, relay>> /\ cancelling' \in sessions \cup {cancelling}
    BY <1>3 DEF HandleCancelRequest
  <2> QED
    BY <1>a, <2>1 DEF SessionInv
<1>4. ASSUME NEW r \in sessions, CleanupStale(r) PROVE SessionInv'
  <2>1. /\ r # conn \/ ~ up
        /\ sessions' = sessions \ {r} /\ cancelling' = r /\ UNCHANGED relay
    BY <1>4 DEF CleanupStale
  <2> QED
    BY <1>a, <2>1 DEF SessionInv
<1>5. CASE AbortAgent
  BY <1>5, <1>a DEF AbortAgent, SessionInv
<1>6. CASE \/ OnLeaseAcquired \/ OnLeaseQueued \/ OnLeaseReleased
           \/ OnCommandStarted \/ OnCommandCompleted \/ OnCommandFailed \/ OnCommandCancelled
  <2>1. UNCHANGED <<sessions, cancelling, relay>>
    BY <1>6 DEF OnLeaseAcquired, OnLeaseQueued, OnLeaseReleased, OnCommandStarted,
                OnCommandCompleted, OnCommandFailed, OnCommandCancelled, Resolve
  <2> QED
    BY <1>b, <2>1
<1> QED
  BY <1>1, <1>2, <1>3, <1>4, <1>5, <1>6 DEF DaemonStep, DaemonHandle

----------------------------------------------------------------------------
(* Steps of the client.                                                    *)

Granting(c) == active = c /\ InTransit(c2d, CMsg("ShellLeaseAcquired", c))

Reported(c) == \E type \in {"CommandStarted", "CommandFailed"} : InTransit(c2d, Reply(type, c, c))

\* What a step of the client may do to what is under way for a call.
ClientCourse(c) ==
    /\ Range(c2d) \subseteq Range(c2d')
    /\ Range(d2c') \subseteq Range(d2c)
    /\ active = c => active' = c \/ InTransit(d2c, DMsg("ReleaseShellLease", c))
    /\ InTransit(d2c, DMsg("AcquireShellLease", c)) /\ up =>
          (InTransit(d2c, DMsg("AcquireShellLease", c)) \/ InTransit(queue, c) \/ Granting(c))'
    /\ InTransit(queue, c) /\ up => (InTransit(queue, c) \/ Granting(c))'
    /\ InTransit(d2c, DMsg("ExecuteLeasedCommand", c)) /\ active = c =>
          (InTransit(d2c, DMsg("ExecuteLeasedCommand", c)) \/ (active = c /\ ready = c))'
    /\ active = c /\ ready = c /\ up =>
          \/ (active = c /\ ready = c)' \/ Reported(c)'
          \/ InTransit(d2c, DMsg("ReleaseShellLease", c))
    /\ GivenBack(c)' => GivenBack(c) \/ InTransit(d2c, DMsg("ReleaseShellLease", c))
    /\ Stray(c)' => Stray(c) \/ (pending = c /\ active # c)
    /\ ready' = c => ready = c \/ InTransit(d2c, DMsg("ExecuteLeasedCommand", c))
    /\ pending' = c => pending = c \/ ready = c

\* What ClientCourse allows keeps every promise made to a call.
LEMMA ClientCourseKept ==
    ASSUME NEW c \in Calls, Kept(c), LeaseInv(c), UNCHANGED <<linkVars, daemonVars>>,
           ClientCourse(c)
    PROVE  Kept(c)'
<1>a. /\ UNCHANGED <<conn, up, ops, pc, leaseRx, outcome, timer, relay>>
      /\ WaitInv(c) /\ CourseInv(c) /\ RequestHeld(c) /\ CommandHeld(c)
  BY DEF linkVars, daemonVars, Kept
<1>b. /\ Reachable(c)' = Reachable(c)
      /\ CMsg("ShellLeaseAcquired", c)' = CMsg("ShellLeaseAcquired", c)
      /\ \A type : Reply(type, c, c)' = Reply(type, c, c)
  BY <1>a DEF Reachable, CMsg, Reply
<1>c. pc[c] \in {"execute", "result"} => active = c
  BY <1>a DEF WaitInv, LeaseInv
<1>d. InTransit(d2c, DMsg("ReleaseShellLease", c)) => pc[c] \in Past
  BY DEF LeaseInv, Past
<1>1. WaitInv(c)'
  BY <1>a DEF WaitInv
<1>2. CourseInv(c)'
  <2>1. InTransit(d2c, DMsg("ExecuteLeasedCommand", c))' =>
            InTransit(d2c, DMsg("ExecuteLeasedCommand", c))
    BY DEF ClientCourse, InTransit, DMsg
  <2>2. GivenBack(c)' => pc[c] \in Past
    BY <1>a, <1>d DEF ClientCourse, CourseInv
  <2>3. Stray(c)' => pc[c] \in Past
    BY <1>a, <1>c DEF ClientCourse, CourseInv
  <2> QED
    BY <1>a, <2>1, <2>2, <2>3 DEF ClientCourse, CourseInv
<1>3. RequestHeld(c)'
  <2> SUFFICES ASSUME pc[c] = "lease", leaseRx[c] = "pending", Reachable(c)
               PROVE  \/ InTransit(d2c, DMsg("AcquireShellLease", c))'
                      \/ InTransit(queue, c)' \/ Granting(c)'
    BY <1>a, <1>b DEF RequestHeld, Granting, DMsg
  <2>1. up /\ ~ InTransit(d2c, DMsg("ReleaseShellLease", c))
    BY <1>d DEF Reachable, Past
  <2>2. Granting(c) => Granting(c)'
    BY <1>b, <2>1 DEF Granting, ClientCourse, InTransit
  <2> QED
    BY <1>a, <2>1, <2>2 DEF RequestHeld, ClientCourse, Granting
<1>4. CommandHeld(c)'
  <2> SUFFICES ASSUME pc[c] = "result", outcome[c] = "pending", Reachable(c)
               PROVE  \/ InTransit(d2c, DMsg("ExecuteLeasedCommand", c))'
                      \/ (active = c /\ ready = c)'
                      \/ timer[c] = "armed" \/ Reported(c)'
    BY <1>a, <1>b DEF CommandHeld, Reported, DMsg
  <2>1. up /\ active = c /\ ~ InTransit(d2c, DMsg("ReleaseShellLease", c))
    BY <1>c, <1>d DEF Reachable, Past
  <2>2. Reported(c) => Reported(c)'
    BY <1>b DEF Reported, ClientCourse, InTransit
  <2> QED
    BY <1>a, <2>1, <2>2 DEF CommandHeld, ClientCourse, Reported
<1> QED
  BY <1>1, <1>2, <1>3, <1>4 DEF Kept

\* A frame that gives no lease back and is attributed adds nothing that CourseInv
\* forbids.
Harmless(m) ==
    /\ m.type # "ShellLeaseReleased"
    /\ m.type \in {"CommandStarted", "CommandCompleted", "CommandFailed"} => m.lease = m.exec

\* A promotion takes a call out of the queue only to announce its lease.
LEMMA PromoteCourse ==
    ASSUME IInv, NEW f \in Seq(Attributed), Promote(f), UNCHANGED conn, NEW c \in Calls
    PROVE  /\ Range(c2d) \subseteq Range(c2d')
           /\ InTransit(queue, c) /\ up => (InTransit(queue, c) \/ Granting(c))'
           /\ \A m \in Range(c2d') : m \in Range(c2d) \/ m \in Range(f) \/ Harmless(m)
           /\ ready' = NoCommand
<1>a. c2d \in Seq(Attributed) /\ queue \in Seq(Calls) /\ conn \in 1 .. MaxConns
  BY DEF IInv, TypeOK, ClientTypeOK
<1>1. CASE ShellFree /\ queue # <<>>
  <2>1. PICK k : k = Head(queue)
    OBVIOUS
  <2>2. /\ active' = k /\ queue' = Tail(queue) /\ ready' = NoCommand
        /\ ToDaemon(f \o <<CMsg("ShellLeaseAcquired", k)>>)
    BY <1>1, <2>1 DEF Promote
  <2>3. k \in Calls /\ \A x \in Range(queue) : x # k => x \in Range(queue')
    <3>1. \A x \in Range(queue) : x # Head(queue) => x \in Range(Tail(queue))
      BY <1>a, <1>1, RangeSplit
    <3>2. Head(queue) \in Calls
      BY <1>a, <1>1
    <3> QED
      BY <2>1, <2>2, <3>1, <3>2
  <2>4. PICK m \in Attributed : m = CMsg("ShellLeaseAcquired", k)
    BY <1>a, <2>3, LeaseReplyAttributed
  <2>5. <<m>> \in Seq(Attributed) /\ Range(<<m>>) = {m}
    BY DEF Range
  <2>6. f \o <<m>> \in Seq(Attributed)
    BY <2>5
  <2>7. Range(f \o <<m>>) = Range(f) \cup {m}
    <3>1. Range(f \o <<m>>) = Range(f) \cup Range(<<m>>)
      BY <2>5, RangeConcatenation
    <3> QED
      BY <2>5, <3>1
  <2>8. ToDaemon(f \o <<m>>)
    BY <2>2, <2>4
  <2>9. /\ Range(c2d) \subseteq Range(c2d')
        /\ Range(c2d') \subseteq Range(c2d) \cup Range(f) \cup {m}
        /\ up => m \in Range(c2d')
    BY <1>a, <2>6, <2>7, <2>8, RangeToDaemonExact
  <2>10. Harmless(m)
    BY <2>4 DEF Harmless, CMsg
  <2>11. up /\ k = c => Granting(c)'
    <3>1. CMsg("ShellLeaseAcquired", c)' = CMsg("ShellLeaseAcquired", c)
      BY DEF CMsg
    <3> QED
      BY <2>2, <2>4, <2>9, <3>1 DEF Granting, InTransit
  <2> QED
    BY <2>2, <2>3, <2>9, <2>10, <2>11 DEF InTransit
<1>2. CASE ~ (ShellFree /\ queue # <<>>)
  <2>1. UNCHANGED queue /\ ready' = NoCommand /\ ToDaemon(f)
    BY <1>2 DEF Promote
  <2> QED
    BY <1>a, <2>1, RangeToDaemonExact DEF InTransit
<1> QED
  BY <1>1, <1>2

\* Every step of the client stays within ClientCourse.
LEMMA ClientStepCourse ==
    ASSUME IInv, LineInv, UNCHANGED <<linkVars, daemonVars>>, ClientStep, NEW c \in Calls
    PROVE  ClientCourse(c)
<1>a. /\ d2c \in Seq(DaemonMessage) /\ c2d \in Seq(Attributed) /\ conn \in 1 .. MaxConns
      /\ ClientTypeOK /\ ClientInv /\ UNCHANGED <<conn, up>>
  BY DEF IInv, TypeOK, linkVars
<1>b. ClientEffect(c)
  BY ClientStepEffect DEF linkVars
<1>c. /\ Range(d2c') \subseteq Range(d2c)
      /\ active = c => active' = c \/ InTransit(d2c, DMsg("ReleaseShellLease", c))
  BY <1>b DEF ClientEffect
<1>d. ASSUME NEW type, Deliver(type)
      PROVE  /\ up /\ Head(d2c).lease \in Calls /\ Head(d2c) = DMsg(type, Head(d2c).lease)
             /\ InTransit(d2c, DMsg(type, Head(d2c).lease))
             /\ \A s, e : /\ InTransit(d2c, DMsg(s, e))
                          /\ ~ (s = type /\ e = Head(d2c).lease)
                          => InTransit(d2c, DMsg(s, e))'
  <2>1. up /\ d2c # <<>> /\ d2c' = Tail(d2c) /\ Head(d2c).type = type
    BY <1>d DEF Deliver
  <2>2. Head(d2c) \in Range(d2c) /\ Head(d2c) \in DaemonMessage
    BY <1>a, <2>1, RangeOfTail
  <2>3. Head(d2c).lease \in Calls /\ Head(d2c) = DMsg(type, Head(d2c).lease)
    BY <2>1, <2>2 DEF DaemonMessage, DMsg
  <2>4. \A m \in Range(d2c) : m # Head(d2c) => m \in Range(d2c')
    BY <1>a, <2>1, RangeSplit
  <2>5. \A s, e : DMsg(s, e)' = DMsg(s, e)
    BY DEF DMsg
  <2> QED
    BY <2>1, <2>2, <2>3, <2>4, <2>5, DMsgInjective DEF InTransit
\* Of one frame sent.
<1>e. ASSUME NEW m \in Attributed, ToDaemon(<<m>>)
      PROVE  /\ Range(c2d) \subseteq Range(c2d') /\ Range(c2d') \subseteq Range(c2d) \cup {m}
             /\ up => m \in Range(c2d')
  <2>1. <<m>> \in Seq(Attributed) /\ Range(<<m>>) = {m}
    BY DEF Range
  <2> QED
    BY <1>a, <1>e, <2>1, RangeToDaemonExact
<1>f. ASSUME Range(c2d) \subseteq Range(c2d'),
             \A m \in Range(c2d') : m \in Range(c2d) \/ Harmless(m)
      PROVE  (GivenBack(c)' => GivenBack(c)) /\ (Stray(c)' => Stray(c))
  BY <1>f DEF GivenBack, Stray, Harmless
\* A step that takes nothing from the daemon and moves no lease.
<1>g. ASSUME UNCHANGED <<active, queue, d2c>>, Range(c2d) \subseteq Range(c2d'),
             GivenBack(c)' => GivenBack(c), Stray(c)' => Stray(c) \/ (pending = c /\ active # c),
             ready' = c => ready = c, pending' = c => pending = c \/ ready = c,
             active = c /\ ready = c /\ up => ready' = c \/ Reported(c)'
      PROVE  ClientCourse(c)
  BY <1>c, <1>g DEF ClientCourse, InTransit, DMsg
<1>h. \A type, e : CMsg(type, e)' = CMsg(type, e) /\ Reply(type, e, e)' = Reply(type, e, e)
  BY <1>a DEF CMsg, Reply
<1>1. CASE HandleAcquire
  <2>1. PICK l \in Calls : l = Head(d2c).lease
    BY <1>1, <1>d DEF HandleAcquire
  <2>2. /\ up /\ UNCHANGED pending
        /\ \A s, e : /\ InTransit(d2c, DMsg(s, e)) /\ ~ (s = "AcquireShellLease" /\ e = l)
                     => InTransit(d2c, DMsg(s, e))'
    BY <1>1, <1>d, <2>1 DEF HandleAcquire
  <2>3. CASE CanGrant
    <3>1. /\ active' = l /\ ready' = NoCommand /\ UNCHANGED queue /\ active = NoLease
          /\ ToDaemon(<<CMsg("ShellLeaseAcquired", l)>>)
      BY <1>1, <2>1, <2>3 DEF HandleAcquire, CanGrant
    <3>2. PICK m \in Attributed : m = CMsg("ShellLeaseAcquired", l)
      BY <1>a, LeaseReplyAttributed
    <3>3. /\ Range(c2d) \subseteq Range(c2d') /\ Range(c2d') \subseteq Range(c2d) \cup {m}
          /\ m \in Range(c2d') /\ Harmless(m)
      BY <1>e, <2>2, <3>1, <3>2 DEF Harmless, CMsg
    <3>4. l = c => Granting(c)'
      BY <1>h, <3>1, <3>2, <3>3 DEF Granting, InTransit
    <3> QED
      BY <1>c, <1>f, <2>2, <3>1, <3>3, <3>4, NoLeaseAssumption, CommandAssumption
      DEF ClientCourse, InTransit
  <2>4. CASE ~ CanGrant
    <3>1. /\ queue' = Append(queue, l) /\ UNCHANGED <<active, ready>>
          /\ ToDaemon(<<CMsg("ShellLeaseQueued", l)>>)
      BY <1>1, <2>1, <2>4 DEF HandleAcquire
    <3>2. PICK m \in Attributed : m = CMsg("ShellLeaseQueued", l)
      BY <1>a, LeaseReplyAttributed
    <3>3. /\ Range(c2d) \subseteq Range(c2d') /\ Range(c2d') \subseteq Range(c2d) \cup {m}
          /\ Harmless(m)
      BY <1>e, <3>1, <3>2 DEF Harmless, CMsg
    <3>4. Range(queue') = Range(queue) \cup {l}
      BY <1>a, <3>1, RangeOfAppend DEF ClientTypeOK
    <3>5. DMsg("ExecuteLeasedCommand", c)' = DMsg("ExecuteLeasedCommand", c)
      BY DEF DMsg
    <3> QED
      BY <1>c, <1>f, <2>2, <3>1, <3>3, <3>4, <3>5 DEF ClientCourse, InTransit
  <2> QED
    BY <2>3, <2>4
<1>2. CASE HandleExecute
  <2>1. PICK l \in Calls : l = Head(d2c).lease
    BY <1>2, <1>d DEF HandleExecute
  <2>2. /\ UNCHANGED <<active, queue, pending, c2d>>
        /\ ready' = IF active = l THEN active ELSE ready
        /\ InTransit(d2c, DMsg("ExecuteLeasedCommand", l))
        /\ \A s, e : /\ InTransit(d2c, DMsg(s, e)) /\ ~ (s = "ExecuteLeasedCommand" /\ e = l)
                     => InTransit(d2c, DMsg(s, e))'
    BY <1>2, <1>d, <2>1 DEF HandleExecute
  <2> QED
    BY <1>c, <1>f, <2>2 DEF ClientCourse, InTransit
<1>3. CASE HandleRelease
  <2>1. PICK l \in Calls : l = Head(d2c).lease
    BY <1>3, <1>d DEF HandleRelease
  <2>2. /\ UNCHANGED pending /\ InTransit(d2c, DMsg("ReleaseShellLease", l))
        /\ \A s, e : /\ InTransit(d2c, DMsg(s, e)) /\ ~ (s = "ReleaseShellLease" /\ e = l)
                     => InTransit(d2c, DMsg(s, e))'
    BY <1>3, <1>d, <2>1 DEF HandleRelease
  <2>3. CASE active = l
    <3>1. PICK m \in Attributed : m = CMsg("ShellLeaseReleased", l)
      BY <1>a, LeaseReplyAttributed
    <3>2. Promote(<<m>>) /\ <<m>> \in Seq(Attributed) /\ Range(<<m>>) = {m}
      BY <1>3, <2>1, <2>3, <3>1 DEF HandleRelease, Range
    <3>3. /\ Range(c2d) \subseteq Range(c2d')
          /\ InTransit(queue, c) /\ up => (InTransit(queue, c) \/ Granting(c))'
          /\ \A x \in Range(c2d') : x \in Range(c2d) \/ x = m \/ Harmless(x)
          /\ ready' = NoCommand
      BY <1>a, <3>2, PromoteCourse
    <3>4. m.type = "ShellLeaseReleased" /\ m.lease = l
      BY <3>1 DEF CMsg
    <3>5. GivenBack(c)' => GivenBack(c) \/ c = l
      BY <3>3, <3>4 DEF GivenBack, Harmless
    <3>6. Stray(c)' => Stray(c)
      BY <3>3, <3>4 DEF Stray, Harmless
    <3> QED
      BY <1>c, <2>2, <2>3, <3>3, <3>5, <3>6, CommandAssumption DEF ClientCourse
  <2>4. CASE active # l
    <3>1. UNCHANGED <<active, ready, queue, c2d>>
      BY <1>3, <2>1, <2>4 DEF HandleRelease
    <3> QED
      BY <1>c, <1>f, <2>2, <3>1 DEF ClientCourse, InTransit
  <2> QED
    BY <2>3, <2>4
<1>4. CASE HandleCancel
  <2>1. PICK l \in Calls : l = Head(d2c).lease
    BY <1>4, <1>d DEF HandleCancel
  <2>2. /\ UNCHANGED <<active, queue, ready, pending>>
        /\ ToDaemon(<<Reply("CommandCancelled", l, l)>>)
        /\ \A s, e : /\ InTransit(d2c, DMsg(s, e)) /\ ~ (s = "CancelLeasedCommand" /\ e = l)
                     => InTransit(d2c, DMsg(s, e))'
    BY <1>4, <1>d, <2>1 DEF HandleCancel
  <2>3. PICK m \in Attributed : m = Reply("CommandCancelled", l, l)
    BY <1>a, CommandReplyAttributed
  <2>4. /\ Range(c2d) \subseteq Range(c2d') /\ Range(c2d') \subseteq Range(c2d) \cup {m}
        /\ Harmless(m)
    BY <1>e, <2>2, <2>3 DEF Harmless, Reply
  <2> QED
    BY <1>c, <1>f, <2>2, <2>4 DEF ClientCourse, InTransit
<1>5. CASE StartUserCommand \/ PressCtrlC \/ Wake \/ NotComplete \/ GiveUp \/ ShellBusy
  <2>1. /\ UNCHANGED <<active, queue, ready, d2c, c2d>>
        /\ pending' \in {pending, NoCommand, UserCommand}
    BY <1>5 DEF StartUserCommand, PressCtrlC, Wake, NotComplete, GiveUp, ShellBusy
  <2> QED
    BY <1>f, <1>g, <2>1, CommandAssumption
<1>6. CASE PressEsc
  <2>1. PICK m : m = [type |-> "CancelRequest", from |-> conn]
    OBVIOUS
  <2>2. m \in Attributed /\ Harmless(m)
    BY <1>a, <2>1 DEF Attributed, ClientMessage, CancelRequest, CommandReply, Harmless
  <2>3. ToDaemon(<<m>>) /\ UNCHANGED <<active, queue, ready, pending, d2c>>
    BY <1>6, <2>1 DEF PressEsc
  <2> QED
    BY <1>e, <1>f, <1>g, <2>2, <2>3
<1>7. CASE Complete
  <2>1. UNCHANGED <<active, queue, ready, d2c>> /\ pending' = NoCommand
    BY <1>7 DEF Complete
  <2>2. CASE pending = UserCommand
    <3>1. ToDaemon(<<>>) /\ <<>> \in Seq(Attributed) /\ Range(<<>>) = {}
      BY <1>7, <2>2 DEF Complete, Range
    <3>2. Range(c2d) \subseteq Range(c2d') /\ Range(c2d') \subseteq Range(c2d)
      BY <1>a, <3>1, RangeToDaemonExact
    <3> QED
      BY <1>f, <1>g, <2>1, <3>2, CommandAssumption
  <2>3. CASE pending # UserCommand
    <3>1. pending \in Calls /\ active \in {pending, NoLease}
      BY <1>7, <1>a, <2>3 DEF Complete, ShellFree, ClientTypeOK, ClientInv
    <3>2. PICK m \in Attributed : m = Reply("CommandCompleted", active, pending)
      BY <1>a, <3>1, CommandReplyAttributed
    <3>3. /\ m.type = "CommandCompleted" /\ m.exec = pending /\ m.lease = active
          /\ ToDaemon(<<m>>)
      BY <1>7, <2>3, <3>2 DEF Complete, Reply
    <3>4. Range(c2d) \subseteq Range(c2d') /\ Range(c2d') \subseteq Range(c2d) \cup {m}
      BY <1>e, <3>3
    <3>5. GivenBack(c)' => GivenBack(c)
      BY <3>3, <3>4 DEF GivenBack
    <3>6. Stray(c)' => Stray(c) \/ (pending = c /\ active # c)
      BY <3>3, <3>4 DEF Stray
    <3> QED
      BY <1>g, <2>1, <3>4, <3>5, <3>6, CommandAssumption
  <2> QED
    BY <2>2, <2>3
<1>8. CASE PromoteNext
  <2>1. UNCHANGED <<pending, d2c>> /\ ready = NoCommand
    BY <1>8 DEF PromoteNext
  <2>2. CASE active = NoLease
    <3>1. Promote(<<>>) /\ <<>> \in Seq(Attributed) /\ Range(<<>>) = {}
      BY <1>8, <2>2 DEF PromoteNext, Range
    <3>2. /\ Range(c2d) \subseteq Range(c2d')
          /\ InTransit(queue, c) /\ up => (InTransit(queue, c) \/ Granting(c))'
          /\ \A x \in Range(c2d') : x \in Range(c2d) \/ Harmless(x)
          /\ ready' = NoCommand
      BY <1>a, <3>1, PromoteCourse
    <3>3. (GivenBack(c)' => GivenBack(c)) /\ (Stray(c)' => Stray(c))
      BY <1>f, <3>2
    <3> QED
      BY <1>c, <2>1, <2>2, <3>2, <3>3, NoLeaseAssumption, CommandAssumption
      DEF ClientCourse, InTransit, DMsg
  <2>3. CASE active # NoLease
    <3>1. UNCHANGED <<active, ready, queue, c2d>>
      BY <1>8, <2>3 DEF PromoteNext
    <3> QED
      BY <1>f, <1>g, <2>1, <3>1
  <2> QED
    BY <2>2, <2>3
<1>9. CASE StartLeased \/ StartFailed
  <2>1. /\ ready \in Calls /\ active = ready /\ ready' = NoCommand
        /\ UNCHANGED <<active, queue, d2c>> /\ pending' \in {pending, ready}
        /\ \E type \in {"CommandStarted", "CommandFailed"} :
               ToDaemon(<<Reply(type, active, ready)>>)
    BY <1>9, <1>a
    DEF StartLeased, StartFailed, StartReady, ClientTypeOK, ClientInv
  <2>2. PICK type \in {"CommandStarted", "CommandFailed"} :
            ToDaemon(<<Reply(type, ready, ready)>>)
    BY <2>1
  <2>3. PICK m \in Attributed : m = Reply(type, ready, ready)
    BY <1>a, <2>1, CommandReplyAttributed
  <2>4. /\ Range(c2d) \subseteq Range(c2d') /\ Range(c2d') \subseteq Range(c2d) \cup {m}
        /\ up => m \in Range(c2d')
        /\ Harmless(m)
    BY <1>e, <2>2, <2>3 DEF Harmless, Reply
  <2>5. ready = c /\ up => Reported(c)'
    BY <1>h, <2>3, <2>4 DEF Reported, InTransit
  <2> QED
    BY <1>f, <1>g, <2>1, <2>4, <2>5, CommandAssumption
<1> QED
  BY <1>1, <1>2, <1>3, <1>4, <1>5, <1>6, <1>7, <1>8, <1>9
  DEF ClientStep, HandleLeaseMessage, UserStep, CommandOver, StartStep

----------------------------------------------------------------------------
(* Steps of the connection.                                                *)

\* A broken link frees the protocol of its promises, and a new one makes none.
LEMMA LinkStepConservation ==
    ASSUME IInv, ConservationInv, Disconnect \/ DaemonStop \/ Reconnect
    PROVE  ConservationInv'
<1>a. /\ d2c \in Seq(DaemonMessage) /\ c2d \in Seq(Attributed) /\ pc \in [Calls -> PC]
      /\ conn \in 1 .. MaxConns /\ relay \in [Calls -> 0 .. MaxConns]
      /\ sessions \in SUBSET (1 .. MaxConns) /\ cancelling \in 0 .. MaxConns
      /\ SessionInv /\ \A c \in Calls : Kept(c)
  BY DEF IInv, TypeOK, DaemonTypeOK, ConservationInv, Kept
\* While a call has no live connection it is promised nothing.
<1>b. ASSUME NEW c \in Calls, ~ Reachable(c)', WaitInv(c)', UNCHANGED clientVars,
             pc'[c] = pc[c] \/ (pc[c] # "idle" /\ pc'[c] = "aborted"),
             Range(d2c') \subseteq Range(d2c), Range(c2d') \subseteq Range(c2d)
      PROVE  Kept(c)'
  <2>1. InTransit(d2c, DMsg("ExecuteLeasedCommand", c))' =>
            InTransit(d2c, DMsg("ExecuteLeasedCommand", c))
    BY <1>b DEF InTransit, DMsg
  <2>2. CourseInv(c)'
    BY <1>a, <1>b, <2>1, CourseKept DEF Past, Kept
  <2> QED
    BY <1>b, <2>2 DEF Kept, RequestHeld, CommandHeld
<1>1. CASE Disconnect
  <2>1. PICK n \in 0 .. Len(c2d) : c2d' = SubSeq(c2d, 1, n)
    BY <1>1 DEF Disconnect
  <2>2. UNCHANGED <<conn, daemonVars, clientVars>> /\ d2c' = <<>> /\ up' = FALSE
    BY <1>1 DEF Disconnect
  <2>3. Range(c2d') \subseteq Range(c2d) /\ Range(d2c') \subseteq Range(d2c)
    BY <1>a, <2>1, <2>2, RangeOfPrefix DEF Range
  <2>4. ASSUME NEW c \in Calls PROVE Kept(c)'
    <3>1. ~ Reachable(c)'
      BY <2>2 DEF Reachable
    <3>2. WaitInv(c)'
      BY <1>a, <2>2 DEF daemonVars, WaitInv, Kept
    <3> QED
      BY <1>b, <2>2, <2>3, <3>1, <3>2 DEF daemonVars
  <2>5. SessionInv'
    BY <1>a, <2>2 DEF SessionInv, daemonVars
  <2> QED
    BY <2>4, <2>5 DEF ConservationInv, Kept
<1>2. CASE DaemonStop
  <2>1. /\ UNCHANGED <<conn, leaseRx, relay, clientVars>> /\ d2c' = <<>> /\ c2d' = <<>>
        /\ up' = FALSE /\ sessions' = {} /\ cancelling' = 0
        /\ ops' = [c \in Calls |-> NoOp]
        /\ pc' = [c \in Calls |-> IF Live(c) THEN "aborted" ELSE pc[c]]
    BY <1>2 DEF DaemonStop
  <2>2. Range(d2c') \subseteq Range(d2c) /\ Range(c2d') \subseteq Range(c2d)
    BY <2>1 DEF Range
  <2>3. ASSUME NEW c \in Calls PROVE Kept(c)'
    <3>1. ~ Reachable(c)'
      BY <2>1 DEF Reachable
    <3>2. /\ pc'[c] = pc[c] \/ (pc[c] # "idle" /\ pc'[c] = "aborted")
          /\ pc'[c] \in {"idle", "returned", "aborted"}
      BY <1>a, <2>1 DEF Live, Over
    <3>3. WaitInv(c)'
      BY <2>1, <3>2 DEF WaitInv
    <3> QED
      BY <1>b, <2>1, <2>2, <3>1, <3>2, <3>3
  <2>4. SessionInv'
    BY <1>a, <2>1 DEF SessionInv
  <2> QED
    BY <2>3, <2>4 DEF ConservationInv, Kept
<1>3. CASE Reconnect
  <2>1. /\ UNCHANGED <<d2c, c2d, ops, pc, leaseRx, outcome, timer, relay, cancelling, clientVars>>
        /\ conn' = conn + 1 /\ up' = TRUE /\ sessions' = sessions \cup {conn'}
    BY <1>3 DEF Reconnect
  <2>2. ASSUME NEW c \in Calls PROVE Kept(c)'
    <3>1. relay[c] <= conn /\ relay[c] \in Nat /\ conn \in Nat
      BY <1>a DEF SessionInv
    <3>2. ~ Reachable(c)'
      BY <2>1, <3>1 DEF Reachable
    <3>3. WaitInv(c)'
      BY <1>a, <2>1 DEF WaitInv, Kept
    <3> QED
      BY <1>b, <2>1, <3>2, <3>3
  <2>3. SessionInv'
    BY <1>a, <2>1 DEF SessionInv
  <2> QED
    BY <2>2, <2>3 DEF ConservationInv, Kept
<1> QED
  BY <1>1, <1>2, <1>3

----------------------------------------------------------------------------
(* Nothing is lost.                                                        *)

\* At first nothing is under way and nobody waits.
LEMMA InitConservation ==
    ASSUME Init
    PROVE  ConservationInv
<1>1. Range(d2c) = {} /\ Range(c2d) = {}
  BY DEF Init, Range
<1>2. /\ conn = 1 /\ sessions = {conn} /\ cancelling = 0
      /\ \A c \in Calls : pc[c] = "idle" /\ relay[c] = 0 /\ leaseRx[c] = "pending"
      /\ ready = NoCommand /\ pending = NoCommand
  BY DEF Init, DaemonInit, ClientInit
<1>3. ASSUME NEW c \in Calls
      PROVE  WaitInv(c) /\ CourseInv(c) /\ RequestHeld(c) /\ CommandHeld(c)
  BY <1>1, <1>2, CommandAssumption
  DEF WaitInv, CourseInv, GivenBack, Stray, InTransit, RequestHeld, CommandHeld
<1> QED
  BY <1>2, <1>3 DEF ConservationInv, SessionInv

\* ConservationInv is inductive relative to IInv and OwnershipInv.
LEMMA NextConservation ==
    ASSUME IInv, OwnershipInv, ConservationInv, [Next]_vars
    PROVE  ConservationInv'
<1>a. /\ SessionInv /\ LineInv /\ \A c \in Calls : Kept(c) /\ LeaseInv(c)
  BY DEF ConservationInv, OwnershipInv, Kept
<1>b. ASSUME SessionInv', \A c \in Calls : Kept(c)' PROVE ConservationInv'
  BY <1>b DEF ConservationInv, Kept
<1>1. CASE DaemonStep /\ UNCHANGED <<linkVars, clientVars>>
  <2>1. \A c \in Calls : Kept(c)'
    BY <1>1, <1>a, DaemonStepKept
  <2>2. SessionInv'
    BY <1>1, <1>a, DaemonStepSession
  <2> QED
    BY <1>b, <2>1, <2>2
<1>2. CASE ClientStep /\ UNCHANGED <<linkVars, daemonVars>>
  <2>1. \A c \in Calls : Kept(c)'
    BY <1>2, <1>a, ClientStepCourse, ClientCourseKept
  <2>2. SessionInv'
    BY <1>2, <1>a DEF SessionInv, linkVars, daemonVars
  <2> QED
    BY <1>b, <2>1, <2>2
<1>3. CASE UNCHANGED vars
  <2>1. UNCHANGED <<d2c, c2d, linkVars, daemonVars, clientVars>>
    BY <1>3 DEF vars
  <2>2. SessionInv'
    BY <1>a, <2>1 DEF SessionInv, linkVars, daemonVars
  <2>3. ASSUME NEW c \in Calls PROVE Kept(c)'
    BY <1>a, <2>1, IdleKept DEF Idles, ChannelsSpare, InTransit, daemonVars
  <2> QED
    BY <1>b, <2>2, <2>3
<1> QED
  BY <1>1, <1>2, <1>3, LinkStepConservation DEF Next

\* ConservationInv holds in every reachable state.
THEOREM Conservation == Spec => []ConservationInv
<1>1. Init => ConservationInv
  BY InitConservation
<1>2. IInv /\ OwnershipInv /\ ConservationInv /\ [Next]_vars => ConservationInv'
  BY NextConservation
<1> QED
  BY <1>1, <1>2, Inductive, Ownership, PTL DEF Spec

\* Between on_lease_acquired, the client's queue and its promotions (lease.rs:13-63,
\* relay_manager.rs:206-257) no request for the lease is lost: while its connection
\* lives, a call that still waits is queued, granted or on its way.
THEOREM NoRequestLost == Spec => []RequestConserved
<1>1. ConservationInv => RequestConserved
  BY DEF ConservationInv, RequestConserved
<1> QED
  BY <1>1, Conservation, PTL

\* Nor is a result (event_loop.rs:453-506, relay_manager.rs:290-426): what a call
\* waits for is to be started, reported as started or failed, or timed.
THEOREM NoResultLost == Spec => []CommandConserved
<1>1. ConservationInv => CommandConserved
  BY DEF ConservationInv, CommandConserved
<1> QED
  BY <1>1, Conservation, PTL

\* The client reports a command under whatever lease is active when its sentinel
\* appears (event_loop.rs:412-434).  That is the command's own as long as its call
\* waits for the report: a stray report finds its call past its result.
THEOREM StrayReportsUnawaited == Spec => []ReportReachesItsCall
<1>1. IInv /\ ConservationInv => ReportReachesItsCall
  <2> SUFFICES ASSUME IInv, ConservationInv, NEW m \in Range(c2d),
                      m.type \in {"CommandCompleted", "CommandStarted", "CommandFailed"},
                      m.lease # m.exec
               PROVE  pc[m.exec] # "result"
    BY DEF ReportReachesItsCall
  <2>1. m \in ClientMessage
    BY DEF IInv, TypeOK, Range
  <2>2. m.exec \in Calls
    BY <2>1 DEF ClientMessage, LeaseReply, CommandReply, CancelRequest
  <2>3. Stray(m.exec)
    BY DEF Stray
  <2> QED
    BY <2>2, <2>3 DEF ConservationInv, CourseInv, Past
<1> QED
  BY <1>1, Inductive, Conservation, PTL
=============================================================================
