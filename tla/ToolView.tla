------------------------------ MODULE ToolView ------------------------------
(***************************************************************************)
(* The client's side of a run with tools: the prompt that asks for a       *)
(* permission (codiv/src/ui/terminal/keys/confirmation.rs), the frames of  *)
(* the stream (daemon/streaming.rs) and the blocks they become             *)
(* (ui/blocks.rs).  With the daemon's side it is the whole of such a run.  *)
(***************************************************************************)
EXTENDS RunStream

CONSTANT MaxTurns  \* bound: prompts

ASSUME ViewAssumption == MaxTurns \in Nat

VARIABLES active,   \* active_request_id, 0 when not streaming
          prompt,   \* pending_confirmation: the call it is about
          shown,    \* the permission mode on the status line
          queue,    \* BlockRegistry::pending_tool_calls
          spinner,  \* pending_tool_name is set
          outcome,  \* last_permission_outcome
          open,     \* ai_start_scrollback: the run whose text opened the block, 0 if none
          musing,   \* thinking_start is set
          blocks,   \* BlockRegistry::blocks
          prompts,  \* prompts sent so far
          choices   \* what the user answered: <<call, choice>>

viewVars == <<active, prompt, shown, queue, spinner, outcome, open, musing, blocks, prompts, choices>>
userVars == <<active, shown, prompts, choices>>

\* The oldest frame is handled.
Deliver(type) ==
    /\ d2c # <<>>
    /\ Head(d2c).type = type
    /\ d2c' = Tail(d2c)

NoCall   == 0
NoPrompt == NoCall
NoOutcome == [of |-> NoCall, granted |-> FALSE]

ViewInit ==
    /\ active  = 0
    /\ prompt  = NoPrompt
    /\ shown   = "auto"
    /\ queue   = <<>>
    /\ spinner = FALSE
    /\ outcome = NoOutcome
    /\ open    = 0
    /\ musing  = FALSE
    /\ blocks  = <<>>
    /\ prompts = 0
    /\ choices = {}

----------------------------------------------------------------------------
(* Frames of the stream.                                                   *)

Thought == IF musing THEN <<[type |-> "Thinking"]>> ELSE <<>>
Reply   == IF open # 0 THEN <<[type |-> "AiResponse", of |-> open]>> ELSE <<>>

\* The thinking block, then the block of the reply, are closed if open.
CloseBlocks ==
    /\ blocks' = blocks \o Thought \o Reply
    /\ open' = 0
    /\ musing' = FALSE

HandleText ==
    /\ Deliver("Text")
    /\ blocks' = blocks \o Thought
    /\ musing' = FALSE
    /\ open' = IF open = 0 THEN Head(d2c).of ELSE open
    /\ UNCHANGED <<userVars, prompt, queue, spinner, outcome>>

HandleReasoning ==
    /\ Deliver("Reasoning")
    /\ musing' = TRUE
    /\ UNCHANGED <<userVars, prompt, queue, spinner, outcome, open, blocks>>

\* Only the first delta since the last result writes a placeholder.
HandleToolCallDelta ==
    /\ Deliver("ToolCallDelta")
    /\ IF spinner THEN UNCHANGED <<open, musing, blocks>> ELSE CloseBlocks
    /\ spinner' = TRUE
    /\ UNCHANGED <<userVars, prompt, queue, outcome>>

HandleToolCall ==
    /\ Deliver("ToolCall")
    /\ IF spinner THEN UNCHANGED <<open, musing, blocks>> ELSE CloseBlocks
    /\ queue' = Append(queue, Head(d2c).of)
    /\ UNCHANGED <<userVars, prompt, spinner, outcome>>

\* The outcome of a permission goes to the next result of the same tool.
IsFor(o, c) == o.of # NoCall /\ req[o.of].tool = req[c].tool

\* A result takes the oldest arguments that wait.
HandleToolResult ==
    /\ Deliver("ToolResult")
    /\ LET c == Head(d2c).of
           o == IF IsFor(outcome, c) THEN outcome ELSE NoOutcome IN
       /\ blocks' = Append(blocks, [type |-> "Tool", result |-> c, outcome |-> o.of,
                                    args |-> IF queue = <<>> THEN NoCall ELSE Head(queue)])
       /\ outcome' = IF IsFor(outcome, c) THEN NoOutcome ELSE outcome
    /\ queue' = IF queue = <<>> THEN queue ELSE Tail(queue)
    /\ spinner' = FALSE
    /\ UNCHANGED <<userVars, prompt, open, musing>>

HandleAgentComplete ==
    /\ Deliver("AgentComplete")
    /\ IF active # 0 THEN CloseBlocks
       ELSE blocks' = blocks \o Thought /\ musing' = FALSE /\ UNCHANGED open
    /\ active' = 0
    /\ UNCHANGED <<prompt, shown, queue, spinner, outcome, prompts, choices>>

\* The block of the reply stays open.
HandleError ==
    /\ Deliver("Error")
    /\ active' = 0
    /\ UNCHANGED <<prompt, shown, queue, spinner, outcome, open, musing, blocks, prompts, choices>>

\* A new question takes the place of the one shown.
HandleConfirmationRequest ==
    /\ Deliver("ConfirmationRequest")
    /\ prompt' = Head(d2c).of
    /\ UNCHANGED <<userVars, queue, spinner, outcome, open, musing, blocks>>

HandleModeChanged ==
    /\ Deliver("PermissionModeChanged")
    /\ shown' = Head(d2c).of
    /\ UNCHANGED <<active, prompt, queue, spinner, outcome, open, musing, blocks, prompts, choices>>

HandleOutcome ==
    /\ Deliver("PermissionOutcome")
    /\ outcome' = [of |-> Head(d2c).of, granted |-> Head(d2c).granted]
    /\ UNCHANGED <<userVars, prompt, queue, spinner, open, musing, blocks>>

HandleFrame ==
    /\ \/ HandleText \/ HandleReasoning \/ HandleToolCallDelta \/ HandleToolCall
       \/ HandleToolResult \/ HandleAgentComplete \/ HandleError
       \/ HandleConfirmationRequest \/ HandleModeChanged \/ HandleOutcome
    /\ UNCHANGED <<gateVars, runVars, happened, c2d>>

----------------------------------------------------------------------------
(* The prompt.                                                             *)

Options(c) ==
    IF req[c].tool \in Native THEN <<"once", "reject">>
    ELSE IF ClassifyRisk(req[c]) = "critical" THEN <<"once", "reject", "never">>
    ELSE <<"once", "always", "reject", "never">>

\* Mutant of ResolveAction: the answer of the widest prompt, whichever is shown.
ResolveWidest(c, i) == <<"once", "always", "reject", "never">>[i + 1]

ResolveAction(c, i) == IF i < Len(Options(c)) THEN Options(c)[i + 1] ELSE "reject"

Answer(c, choice) ==
    [call     |-> c,
     approved |-> choice \in {"once", "always"},
     allow    |-> choice = "always",
     deny     |-> choice = "never"]

SendConfirmation(choice) ==
    /\ prompt' = NoPrompt
    /\ choices' = choices \cup {<<prompt, choice>>}
    /\ c2d' = Append(c2d, Frame("Confirmation", Answer(prompt, choice)))
    /\ UNCHANGED <<active, shown, queue, spinner, outcome, open, musing, blocks, prompts>>

\* Up and Down wrap around, so the cursor can be on any option.
PressEnter == \E i \in 1 .. Len(Options(prompt)) : SendConfirmation(ResolveAction(prompt, i - 1))

\* 1, 2 and 3 answer whatever the number of options, 4 only when there are four.
PressDigit(d) ==
    /\ d = 4 => Len(Options(prompt)) >= 4
    /\ SendConfirmation(ResolveAction(prompt, d - 1))

RejectPrompt == SendConfirmation("reject")

PromptKey ==
    /\ prompt # NoPrompt
    /\ \/ PressEnter
       \/ \E d \in 1 .. 4 : PressDigit(d)
       \/ RejectPrompt
    /\ UNCHANGED <<gateVars, runVars, happened, d2c>>

----------------------------------------------------------------------------
(* The other keys, which a prompt keeps away.                              *)

Submit ==
    /\ active = 0 /\ prompts < MaxTurns
    /\ prompts' = prompts + 1
    /\ active' = prompts + 1
    /\ c2d' = Append(c2d, Frame("AgentRequest", prompts + 1))
    /\ UNCHANGED <<prompt, shown, queue, spinner, outcome, open, musing, blocks, choices, happened>>

PressEsc ==
    /\ Happens
    /\ active # 0
    /\ c2d' = Append(c2d, Frame("CancelRequest", active))
    /\ active' = 0
    /\ CloseBlocks
    /\ UNCHANGED <<prompt, shown, queue, spinner, outcome, prompts, choices>>

NextMode == [auto |-> "manual", manual |-> "bypass", bypass |-> "auto"]

CycleMode ==
    /\ Happens
    /\ shown' = NextMode[shown]
    /\ c2d' = Append(c2d, Frame("SetPermissionMode", NextMode[shown]))
    /\ UNCHANGED <<active, prompt, queue, spinner, outcome, open, musing, blocks, prompts, choices>>

FreeKey ==
    /\ prompt = NoPrompt
    /\ Submit \/ PressEsc \/ CycleMode
    /\ UNCHANGED <<gateVars, runVars, d2c>>

----------------------------------------------------------------------------
vars == <<gateVars, runVars, viewVars, happened, c2d, d2c>>

Init == GateInit /\ RunInit /\ ViewInit

DaemonStep == RunNext /\ UNCHANGED viewVars

Next == DaemonStep \/ HandleFrame \/ PromptKey \/ FreeKey

ToolSpec == Init /\ [][Next]_vars

----------------------------------------------------------------------------
Chosen(c, kinds) == \E k \in kinds : <<c, k>> \in choices

\* A call that is asked about runs only if the user approved that very call:
\* no timeout, late answer or answer to another prompt lets it run
\* (permissions.rs, request_confirmation; handlers/permission.rs).
RunsOnlyIfApproved ==
    [][\A c \in Calls :
         gate[c] \in {"asking", "waiting", "late"} /\ gate'[c] = "running"
             => Chosen(c, {"once", "always"})]_vars

\* A call the user has refused does not run, whichever question replaced its
\* own on the screen and whenever the answer arrives (keys/confirmation.rs).
RefusedStaysOut ==
    \A c \in Calls : Chosen(c, {"reject", "never"}) => gate[c] \notin {"running", "ran"}

\* The rules in config.toml are those the user made permanent: each comes from
\* such an answer, is the entry of that very call, and does not come from an
\* "always" to a call with a critical risk; a call that runs because of "always"
\* has its rule (handle_confirmation). What else an entry lets through is not
\* said: it goes by the tool and the first two words of the command
\* (extract_args_pattern), so a rule for one push is one for every push.
SavedAsAnswered ==
    /\ \A e \in saved.allow :
         \E c \in Calls : <<c, "always">> \in choices /\ Entry(req[c]) = e /\ ClassifyRisk(req[c]) # "critical"
    /\ \A e \in saved.deny : \E c \in Calls : <<c, "never">> \in choices /\ Entry(req[c]) = e
    /\ \A c \in Calls :
         <<c, "always">> \in choices /\ gate[c] \in {"running", "ran"} => Entry(req[c]) \in saved.allow

InSeq(s, f) == \E i \in DOMAIN s : s[i] = f

Tools == {i \in DOMAIN blocks : blocks[i].type = "Tool"}

\* Calls whose result will never be reported: their stream was dropped.
LostCalls ==
    {c \in Calls : /\ made[c] # 0
                   /\ ~ InSeq(batch, c)
                   /\ ~ InSeq(d2c, Frame("ToolResult", c))
                   /\ \A i \in Tools : blocks[i].result # c}

Quiet == c2d = <<>> /\ d2c = <<>>

\* With nothing under way, the daemon applies the mode the client shows, also
\* after changes that cross, unless the user has not set it since the session began
\* or config.toml was last read: then it is the configured one, of which the
\* client is not told (handlers/permission.rs, daemon.rs:269).
ModeShownOrConfigured ==
    Quiet => mode = IF reset THEN ConfigMode ELSE shown

\* If no stream was dropped with a call in it, every result is shown with the
\* arguments of its own call, and nothing is left over when the run has ended
\* (blocks.rs, record_tool_call and record_tool_result).
ResultsPairUp ==
    LostCalls = {} =>
        /\ \A i \in Tools : blocks[i].args = blocks[i].result
        /\ Quiet /\ phase = "idle" => queue = <<>> /\ ~ spinner
=============================================================================
