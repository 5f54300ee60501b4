------------------------------ MODULE RunStream ------------------------------
(***************************************************************************)
(* A run of the agent, on the daemon: the stream of the model's answer     *)
(* with its tool calls, the retries of a failed stream (codivd/src/agent/  *)
(* streaming.rs, error.rs), the task around it (handlers/agent.rs) and     *)
(* what it leaves in the store.                                            *)
(*                                                                         *)
(* The streaming library is external: it starts an announced call at any   *)
(* moment, several at a time, reports results in the order of the calls    *)
(* and streams on, or ends, when all are reported; the calls of a stream   *)
(* that is dropped go on or stop.                                          *)
(***************************************************************************)
EXTENDS PermissionGate, FiniteSets

CONSTANTS MaxRetries,  \* MAX_RETRIES
          StreamsArgs, \* the provider streams the arguments of a call
          MaxCalls,    \* bound: tool calls in a behaviour
          MaxEvents,   \* bound: failures of the provider, cancellations and mode changes
          Capacity,    \* frames the channel to the client holds
          ChunkKinds,  \* bound: kinds of chunks, of Text and Reasoning
          MaxChunks    \* bound: chunks in a stream, before its first call

ASSUME RunAssumption ==
    /\ MaxRetries \in Nat /\ MaxCalls \in Nat /\ MaxEvents \in Nat /\ MaxChunks \in Nat /\ Capacity \in Nat \ {0, 1}
    /\ StreamsArgs \in BOOLEAN /\ ChunkKinds \subseteq {"Text", "Reasoning"}
    /\ Calls = 1 .. MaxCalls

VARIABLES d2c,      \* frames from the daemon to the client, oldest first
          c2d,      \* frames from the client to the daemon, oldest first
          phase,    \* of the run's task: idle, streaming, backoff
          turn,     \* the runs started so far: the number of the latest
          attempt,  \* retries of that run
          batch,    \* calls announced in this stream and not yet reported
          chunks,   \* chunks of this stream
          mused,    \* reasoning_buffer is not empty
          made,     \* made[c]: the run of a call
          events,   \* StreamAccumulator::collected_events
          stored,   \* the events of ended runs in the store
          happened  \* failures, cancellations and mode changes so far

runVars == <<phase, turn, attempt, batch, chunks, mused, made, events, stored>>

Happens == happened < MaxEvents /\ happened' = happened + 1

Frame(type, x) == [type |-> type, of |-> x]

\* A sender waits for room in the channel; the outcome of a permission is only
\* tried and lost when there is none.
Room(frames)    == Len(d2c) + Len(frames) <= Capacity
Send(frames)    == Room(frames) /\ d2c' = d2c \o frames
TrySend(frames) == d2c' = IF Room(frames) THEN d2c \o frames ELSE d2c

RunInit ==
    /\ d2c     = <<>>
    /\ c2d     = <<>>
    /\ phase   = "idle"
    /\ turn    = 0
    /\ attempt = 0
    /\ batch   = <<>>
    /\ chunks  = 0
    /\ mused   = FALSE
    /\ made    = [c \in Calls |-> 0]
    /\ events  = <<>>
    /\ stored  = <<>>
    /\ happened = 0

----------------------------------------------------------------------------
(* The stream of one attempt.                                              *)

FreshStream == batch' = <<>> /\ chunks' = 0 /\ mused' = FALSE /\ events' = <<>>

Flushed == IF mused THEN Append(events, Frame("AssistantReasoning", turn)) ELSE events

Chunk(kind) ==
    /\ phase = "streaming" /\ chunks < MaxChunks
    /\ \A c \in Calls : made[c] # turn
    /\ chunks' = chunks + 1
    /\ mused' = (mused \/ kind = "Reasoning")
    /\ Send(<<Frame(kind, turn)>>)
    /\ UNCHANGED <<gateVars, c2d, phase, turn, attempt, batch, made, events, stored, happened>>

\* The arguments of a call are complete; a provider that streams them has sent
\* the name before, which flushes the reasoning.
ToolCall(c) ==
    /\ phase = "streaming"
    /\ made[c] = 0 /\ \A b \in Calls : b < c => made[b] # 0
    /\ made' = [made EXCEPT ![c] = turn]
    /\ batch' = Append(batch, c)
    /\ mused' = FALSE
    /\ events' = Append(Flushed, Frame("ToolCall", c))
    /\ Send((IF StreamsArgs THEN <<Frame("ToolCallDelta", c)>> ELSE <<>>) \o <<Frame("ToolCall", c)>>)
    /\ UNCHANGED <<gateVars, c2d, phase, turn, attempt, chunks, stored, happened>>

\* Mutant of ToolResult: results are reported as they come.
ResultAsItComes(c) ==
    /\ phase = "streaming" /\ c \in {batch[i] : i \in DOMAIN batch} /\ gate[c] \in Over
    /\ batch' = SelectSeq(batch, LAMBDA b : b # c)
    /\ events' = Append(events, Frame("ToolResult", c))
    /\ Send(<<Frame("ToolResult", c)>>)
    /\ UNCHANGED <<gateVars, c2d, phase, turn, attempt, chunks, mused, made, stored, happened>>

\* handle_tool_call_end; the result of a refused call is its error.
ToolResult(c) ==
    /\ phase = "streaming" /\ batch # <<>> /\ c = Head(batch) /\ gate[c] \in Over
    /\ batch' = Tail(batch)
    /\ events' = Append(events, Frame("ToolResult", c))
    /\ Send(<<Frame("ToolResult", c)>>)
    /\ UNCHANGED <<gateVars, c2d, phase, turn, attempt, chunks, mused, made, stored, happened>>

\* Calls that are on their way when their stream is dropped.
Orphans == {c \in Calls : gate[c] \notin Over \cup {"idle"}}

----------------------------------------------------------------------------
(* The loop of attempts and the task around it.                            *)

\* The whole answer is in: its events are stored, ended by its text.
Complete ==
    /\ phase = "streaming" /\ batch = <<>>
    /\ phase' = "idle"
    /\ stored' = stored \o Flushed \o <<Frame("AssistantText", turn)>>
    /\ FreshStream
    /\ Send(<<Frame("AgentComplete", turn)>>)
    /\ UNCHANGED <<gateVars, c2d, turn, attempt, made, happened>>

\* Mutant of Retry: the events of the failed attempt are kept.
RetryKeepingEvents ==
    /\ Happens
    /\ phase = "streaming" /\ attempt < MaxRetries
    /\ phase' = "backoff"
    /\ attempt' = attempt + 1
    /\ doomed' = doomed \cup Orphans
    /\ batch' = <<>> /\ chunks' = 0 /\ mused' = FALSE /\ UNCHANGED events
    /\ Send(<<Frame("Text", turn)>>)
    /\ UNCHANGED <<req, gate, pending, meta, reply, mode, rules, saved, reset, c2d, turn, made, stored>>

\* The provider fails: its kind decides between another attempt, announced in
\* the text, and the end of the run.
Retry ==
    /\ Happens
    /\ phase = "streaming" /\ attempt < MaxRetries
    /\ phase' = "backoff"
    /\ attempt' = attempt + 1
    /\ doomed' = doomed \cup Orphans
    /\ FreshStream
    /\ Send(<<Frame("Text", turn)>>)
    /\ UNCHANGED <<req, gate, pending, meta, reply, mode, rules, saved, reset, c2d, turn, made, stored>>

BackoffOver ==
    /\ phase = "backoff"
    /\ phase' = "streaming"
    /\ UNCHANGED <<gateVars, d2c, c2d, turn, attempt, batch, chunks, mused, made, events, stored, happened>>

GiveUpRun ==
    /\ Happens
    /\ phase = "streaming"
    /\ phase' = "idle"
    /\ doomed' = doomed \cup Orphans
    /\ stored' = Append(stored, Frame("Error", turn))
    /\ FreshStream
    /\ Send(<<Frame("Error", turn)>>)
    /\ UNCHANGED <<req, gate, pending, meta, reply, mode, rules, saved, reset, c2d, turn, attempt, made>>

----------------------------------------------------------------------------
(* The main loop.                                                          *)

Receive(type) ==
    /\ c2d # <<>>
    /\ Head(c2d).type = type
    /\ c2d' = Tail(c2d)

HandleAgentRequest ==
    /\ phase = "idle"
    /\ Receive("AgentRequest")
    /\ phase' = "streaming"
    /\ turn' = Head(c2d).of
    /\ attempt' = 0
    /\ FreshStream
    /\ UNCHANGED <<gateVars, d2c, made, stored, happened>>

\* The task is told to abort; the events of its run are gone.
HandleCancelRequest ==
    /\ Receive("CancelRequest")
    /\ phase' = "idle"
    /\ doomed' = doomed \cup Orphans
    /\ FreshStream
    /\ Send(<<Frame("AgentComplete", Head(c2d).of)>>)
    /\ UNCHANGED <<req, gate, pending, meta, reply, mode, rules, saved, reset, turn, attempt, made, stored, happened>>

OnConfirmation ==
    /\ Receive("Confirmation")
    /\ HandleConfirmation(Head(c2d).of)
    /\ UNCHANGED <<d2c, runVars, happened>>

OnSetPermissionMode ==
    /\ Receive("SetPermissionMode")
    /\ HandleSetPermissionMode(Head(c2d).of)
    /\ Send(<<Frame("PermissionModeChanged", Head(c2d).of)>>)
    /\ UNCHANGED <<runVars, happened>>

----------------------------------------------------------------------------
(* The wrapper of a call, with what it sends to the client.                *)

Starts(c) ==
    /\ \E i \in DOMAIN batch : batch[i] = c
    /\ \E q \in Requests[c] : Enter(c, q)
    /\ UNCHANGED <<d2c, c2d, runVars, happened>>

Outcome(c, granted) == <<[type |-> "PermissionOutcome", of |-> c, granted |-> granted]>>

\* Each step of the wrapper, and what it tells the client.
Gate(c) ==
    /\ \/ Evaluated(c) /\ TrySend(Outcome(c, TRUE))
       \/ NotEvaluated(c) /\ UNCHANGED d2c
       \/ Ask(c) /\ Send(<<Frame("ConfirmationRequest", c)>>)
       \/ Answered(c) /\ TrySend(Outcome(c, reply[c] = "yes"))
       \/ TimeOut(c) /\ UNCHANGED d2c
       \/ GiveUp(c) /\ TrySend(Outcome(c, FALSE))
       \/ Execute(c) /\ UNCHANGED d2c
    /\ UNCHANGED <<c2d, runVars, happened>>

Vanishes(c) == Drop(c) /\ UNCHANGED <<d2c, c2d, runVars, happened>>
Reloads     == Reload /\ UNCHANGED <<d2c, c2d, runVars, happened>>

StreamStep ==
    \/ \E kind \in ChunkKinds : Chunk(kind)
    \/ \E c \in Calls : ToolCall(c)
    \/ Complete \/ Retry \/ BackoffOver \/ GiveUpRun

LoopStep == HandleAgentRequest \/ HandleCancelRequest \/ OnConfirmation \/ OnSetPermissionMode \/ Reloads

\* What the daemon does about a run, whoever the client is.
RunNext ==
    \/ StreamStep \/ LoopStep
    \/ \E c \in Calls : Starts(c) \/ Gate(c) \/ ToolResult(c) \/ Vanishes(c)

\* What a run leaves in the store can be sent to a provider again: each call is
\* followed by its one result before the text of the run, whatever was retried
\* or cancelled in between (streaming.rs, spawn_agent_task).
StoredCallsHaveResults ==
    \A i \in DOMAIN stored :
        /\ stored[i].type = "ToolCall" =>
             \E j \in DOMAIN stored : j > i /\ stored[j] = Frame("ToolResult", stored[i].of)
        /\ \A j \in DOMAIN stored : stored[j] = stored[i] => j = i \/ stored[i].type = "AssistantReasoning"
=============================================================================
