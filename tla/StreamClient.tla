---------------------------- MODULE StreamClient ----------------------------
(***************************************************************************)
(* The client's side of an agent turn: the user's inputs (codiv/src/ui/    *)
(* terminal/keys, event_loop.rs) and the state that daemon messages change *)
(* (codiv/src/ui/terminal/daemon).  agent_streaming is true exactly while  *)
(* active_request_id is set: every assignment changes both.                *)
(***************************************************************************)
EXTENDS AgentTurn

CONSTANTS Repertoire,  \* what the user does besides prompts
          UserWaits    \* the user waits for the end of what was asked for

ASSUME UserAssumption ==
    /\ Repertoire \subseteq {"command", "clear", "pick", "compact", "esc"}
    /\ UserWaits \in BOOLEAN

VARIABLES active,     \* StreamState::active_request_id
          compacting, \* pending_compaction_count is set
          view,       \* the session the client shows: session.id
          asked,      \* the prompts sent so far
          inputs      \* the other inputs so far

clientVars == <<active, compacting, view, asked, inputs>>

ClientInit ==
    /\ active     = NoRequest
    /\ compacting = FALSE
    /\ view       = NoSession
    /\ asked      = {}
    /\ inputs     = 0

Streaming == active # NoRequest

----------------------------------------------------------------------------
(* Daemon messages.                                                        *)

Deliver(type) ==
    /\ up
    /\ d2c # <<>>
    /\ Head(d2c).type = type
    /\ d2c' = Tail(d2c)

\* Any completion ends the stream, whichever request it is for, except while a
\* compaction is under way.
HandleComplete ==
    /\ Deliver("AgentComplete")
    /\ active' = IF compacting THEN active ELSE NoRequest
    /\ UNCHANGED <<compacting, view, asked, inputs, c2d>>

\* Mutant of HandleError: the stream goes on.
ErrorKeepsStream ==
    /\ Deliver("Error")
    /\ UNCHANGED <<active, compacting, view, asked, inputs, c2d>>

HandleError ==
    /\ Deliver("Error")
    /\ active' = NoRequest
    /\ UNCHANGED <<compacting, view, asked, inputs, c2d>>

HandleCreated ==
    /\ Deliver("SessionCreated")
    /\ view' = Head(d2c).id
    /\ UNCHANGED <<active, compacting, asked, inputs, c2d>>

HandleCompactionStarted ==
    /\ Deliver("CompactionStarted")
    /\ active' = CompactionId
    /\ compacting' = TRUE
    /\ UNCHANGED <<view, asked, inputs, c2d>>

HandleCompactionComplete ==
    /\ Deliver("CompactionComplete")
    /\ active' = NoRequest
    /\ compacting' = FALSE
    /\ UNCHANGED <<view, asked, inputs, c2d>>

----------------------------------------------------------------------------
(* The user.  Nothing but a running shell command keeps a prompt from being *)
(* sent: streaming does not.                                               *)

\* The user sees nothing going on and has the answer to everything asked for.
Settled == ~ Streaming /\ d2c = <<>> /\ c2d = <<>> /\ LoopFree

MayAct == UserWaits => Settled

ToDaemon(type, id) ==
    c2d' = IF up THEN Append(c2d, [type |-> type, id |-> id, from |-> conn]) ELSE c2d

\* Mutant of Submit: the client does not note that it streams.
SubmitUnnoticed(r) ==
    /\ r \notin asked
    /\ MayAct
    /\ asked' = asked \cup {r}
    /\ ToDaemon("AgentRequest", r)
    /\ UNCHANGED <<active, compacting, view, inputs, d2c>>

\* Sent or not, the client waits for the answer.
Submit(r) ==
    /\ r \notin asked
    /\ MayAct
    /\ asked' = asked \cup {r}
    /\ active' = r
    /\ ToDaemon("AgentRequest", r)
    /\ UNCHANGED <<compacting, view, inputs, d2c>>

Input(what) ==
    /\ what \in Repertoire
    /\ inputs < MaxInputs
    /\ inputs' = inputs + 1

\* Esc does not wait for the daemon.
PressEsc ==
    /\ Input("esc")
    /\ Streaming
    /\ ToDaemon("CancelRequest", active)
    /\ active' = NoRequest
    /\ UNCHANGED <<compacting, view, asked, d2c>>

\* A shell command of the user has completed.
RunCommand ==
    /\ Input("command")
    /\ up /\ MayAct
    /\ ToDaemon("CommandResult", inputs + 1)
    /\ UNCHANGED <<active, compacting, view, asked, d2c>>

Clear ==
    /\ Input("clear")
    /\ up /\ MayAct
    /\ ToDaemon("NewSession", NoSession)
    /\ UNCHANGED <<active, compacting, view, asked, d2c>>

\* /sessions and a choice; the session in use is not in the list.
Pick(s) ==
    /\ Input("pick")
    /\ up /\ MayAct
    /\ s # view
    /\ ToDaemon("LoadSession", s)
    /\ UNCHANGED <<active, compacting, view, asked, d2c>>

Compact ==
    /\ Input("compact")
    /\ up /\ MayAct
    /\ ToDaemon("CompactRequest", CompactionId)
    /\ UNCHANGED <<active, compacting, view, asked, d2c>>

----------------------------------------------------------------------------
HandleMessage ==
    \/ HandleComplete \/ HandleError \/ HandleCreated
    \/ HandleCompactionStarted \/ HandleCompactionComplete

UserStep ==
    \/ \E r \in Requests : Submit(r)
    \/ PressEsc \/ RunCommand \/ Clear \/ Compact
    \/ \E s \in 1 .. Len(stored) : Pick(s)
=============================================================================
