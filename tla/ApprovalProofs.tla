--------------------------- MODULE ApprovalProofs ---------------------------
(***************************************************************************)
(* What the user's answers decide, for any number of calls, prompts,       *)
(* failures and retries and any channel: no call that is asked about runs  *)
(* without a yes for that call, none runs that was refused, and the saved  *)
(* rules are the user's.                                                   *)
(***************************************************************************)
EXTENDS ToolView, SequenceTheorems, TLAPS

----------------------------------------------------------------------------
(* The gate's questions: the steps of the daemon are those of RunStream,   *)
(* all else only leaves the gate alone.                                    *)

\* The client's messages are typed: a mode is one of the three.
ModesArrive == c2d # <<>> /\ Head(c2d).type = "SetPermissionMode" => Head(c2d).of \in Modes

RunSpec == GateInit /\ [][RunNext]_gateVars /\ []ModesArrive

\* A question has no answer before it is asked; with that, PendingServed is
\* inductive.
AskInv ==
    /\ gate \in [Calls -> Places]
    /\ reply \in [Calls -> {"none", "yes", "no"}]
    /\ pending \subseteq Calls
    /\ \A c \in Calls : gate[c] \in {"idle", "evaluating", "asking"} => reply[c] = "none"
    /\ mode \in Modes
    /\ PendingServed

\* All that AskInv speaks of.
askVars == <<gate, pending, meta, reply, mode>>

\* No call is asked about or answered at first.
LEMMA InitAsk == GateInit => AskInv
BY GateAssumption DEF GateInit, AskInv, PendingServed, Places

\* The steps of one call's wrapper.
LEMMA CallAsks ==
    ASSUME AskInv, NEW c \in Calls, Starts(c) \/ Gate(c) \/ Vanishes(c)
    PROVE  AskInv'
<1>. USE DEF AskInv, PendingServed, Places, Move
<1>1. CASE Starts(c)
  <2>1. PICK q \in Requests[c] : Enter(c, q)
    BY <1>1 DEF Starts
  <2>2. gate[c] = "idle" /\ UNCHANGED <<pending, meta, reply, mode>>
    BY <2>1 DEF Enter
  <2>3. \E place \in {"running", "refused", "asking", "evaluating"} : gate' = [gate EXCEPT ![c] = place]
    <3>1. CheckPermission(rules, mode, q) \in {"allow", "deny", "prompt", "evaluate"}
      BY DEF CheckPermission, Lookup, EvaluatePermission, Modes
    <3>. QED  BY <2>1, <3>1 DEF Enter
  <2>. QED  BY <2>2, <2>3
<1>2. CASE Evaluated(c) \/ NotEvaluated(c) \/ Execute(c)
  BY <1>2 DEF Evaluated, NotEvaluated, Execute
<1>3. CASE Ask(c)
  BY <1>3 DEF Ask
<1>4. CASE Answered(c)
  BY <1>4 DEF Answered
<1>5. CASE TimeOut(c)
  BY <1>5 DEF TimeOut
<1>6. CASE GiveUp(c)
  BY <1>6 DEF GiveUp
<1>7. CASE Vanishes(c)
  BY <1>7 DEF Vanishes, Drop
<1>. QED  BY <1>1, <1>2, <1>3, <1>4, <1>5, <1>6, <1>7 DEF Gate

\* An answer goes to the call it names, once.
LEMMA ConfirmationAsks ==
    ASSUME AskInv, NEW answer, HandleConfirmation(answer)
    PROVE  AskInv'
<1>. USE DEF AskInv, PendingServed
<1>1. pending' = pending \ {answer.call} /\ meta' = pending' /\ gate' = gate /\ mode' = mode
  BY DEF HandleConfirmation
<1>2. CASE answer.call \in pending /\ gate[answer.call] = "waiting"
  <2>1. \E r \in {"yes", "no"} : reply' = [reply EXCEPT ![answer.call] = r]
    BY <1>2 DEF HandleConfirmation
  <2>. QED  BY <1>1, <1>2, <2>1
<1>3. CASE ~ (answer.call \in pending /\ gate[answer.call] = "waiting")
  <2>1. reply' = reply
    BY <1>3 DEF HandleConfirmation
  <2>. QED  BY <1>1, <1>3, <2>1
<1>. QED  BY <1>2, <1>3

\* Every step of the daemon keeps the questions in order.
LEMMA StepAsks == AskInv /\ ModesArrive /\ [RunNext]_gateVars => AskInv'
<1>. SUFFICES ASSUME AskInv, ModesArrive, [RunNext]_gateVars PROVE AskInv'
  OBVIOUS
<1>1. ASSUME UNCHANGED askVars PROVE AskInv'
  BY <1>1 DEF AskInv, PendingServed, askVars
<1>2. CASE UNCHANGED gateVars
  BY <1>1, <1>2 DEF gateVars, askVars
<1>3. CASE StreamStep
  BY <1>1, <1>3 DEF StreamStep, Chunk, ToolCall, Complete, Retry, BackoffOver, GiveUpRun, gateVars, askVars
<1>4. CASE OnConfirmation
  BY <1>4, ConfirmationAsks DEF OnConfirmation
<1>5. CASE HandleAgentRequest \/ HandleCancelRequest
  BY <1>1, <1>5 DEF HandleAgentRequest, HandleCancelRequest, gateVars, askVars
<1>8. CASE OnSetPermissionMode
  BY <1>8 DEF OnSetPermissionMode, HandleSetPermissionMode, Receive, ModesArrive, AskInv, PendingServed
<1>9. CASE Reloads
  BY <1>9, GateAssumption DEF Reloads, Reload, ReloadRules, ResetMode, AskInv, PendingServed
<1>6. ASSUME NEW c \in Calls, Starts(c) \/ Gate(c) \/ Vanishes(c) PROVE AskInv'
  BY <1>6, CallAsks
<1>7. ASSUME NEW c \in Calls, ToolResult(c) PROVE AskInv'
  BY <1>1, <1>7 DEF ToolResult, gateVars, askVars
<1>. QED  BY <1>2, <1>3, <1>4, <1>5, <1>6, <1>7, <1>8, <1>9 DEF RunNext, LoopStep

\* A call that waits for the user has its question in both maps until it is
\* answered, and a question is kept only for a call that waited, whatever times
\* out, is cancelled or is answered late (permissions.rs, handlers/permission.rs).
THEOREM QuestionsServed == RunSpec => []PendingServed
<1>1. AskInv => PendingServed
  BY DEF AskInv
<1>. QED  BY InitAsk, StepAsks, <1>1, PTL DEF RunSpec

----------------------------------------------------------------------------
(* The user's answers.                                                     *)

Kinds == {"once", "always", "reject", "never"}
Yes   == {"once", "always"}

Numbered == {"Text", "Reasoning", "ToolCallDelta", "ToolCall", "ToolResult", "AgentComplete", "Error"}

DaemonFrame ==
    [type : Numbered, of : Nat]
        \cup [type : {"ConfirmationRequest"}, of : Calls]
        \cup [type : {"PermissionModeChanged"}, of : Modes]
        \cup [type : {"PermissionOutcome"}, of : Calls, granted : BOOLEAN]

ClientFrame ==
    [type : {"AgentRequest", "CancelRequest"}, of : Nat]
        \cup [type : {"SetPermissionMode"}, of : Modes]
        \cup [type : {"Confirmation"}, of : {Answer(c, k) : c \in Calls, k \in Kinds}]

AnyRequest == ToolRequest \cup {NoRequest}
SavedEntry == {Entry(q) : q \in AnyRequest}

TypeInv ==
    /\ d2c \in Seq(DaemonFrame)
    /\ c2d \in Seq(ClientFrame)
    /\ turn \in Nat /\ active \in Nat /\ prompts \in Nat
    /\ shown \in Modes
    /\ prompt \in Calls \cup {NoPrompt}
    /\ choices \in SUBSET (Calls \X Kinds)
    /\ req \in [Calls -> AnyRequest]
    /\ saved \in [allow : SUBSET SavedEntry, deny : SUBSET SavedEntry]

----------------------------------------------------------------------------
(* Where the one question about a call is: on the wire, on the screen, or  *)
(* answered.                                                               *)

Asks(f, c)   == f.type = "ConfirmationRequest" /\ f.of = c
OnWire(c)    == \E i \in 1 .. Len(d2c) : Asks(d2c[i], c)
HasChoice(c) == \E k \in Kinds : <<c, k>> \in choices
IsAsked(c)   == OnWire(c) \/ prompt = c \/ HasChoice(c)

\* A call is asked about once, and the user answers once.
Single(c) == \A i, j \in 1 .. Len(d2c) : Asks(d2c[i], c) /\ Asks(d2c[j], c) => i = j

OnceInv ==
    \A c \in Calls :
        /\ Single(c)
        /\ OnWire(c) => prompt # c /\ ~ HasChoice(c)
        /\ prompt = c => ~ HasChoice(c)
        /\ \A k, l \in Kinds : <<c, k>> \in choices /\ <<c, l>> \in choices => k = l

\* An asked call is past its question and runs by a yes only, and a yes is the
\* user's.
YesInv ==
    \A c \in Calls :
        /\ IsAsked(c) => /\ gate[c] \notin {"idle", "evaluating", "asking"}
                         /\ gate[c] \in {"running", "ran"} => reply[c] = "yes"
        /\ reply[c] = "yes" => Chosen(c, Yes)

\* What travels to the daemon is what the user chose.
AnswerInv ==
    \A i \in 1 .. Len(c2d) : c2d[i].type = "Confirmation" =>
        \E c \in Calls, k \in Kinds : <<c, k>> \in choices /\ c2d[i].of = Answer(c, k)

\* Only the prompt of a call that is not critical offers "always", and the rule
\* is there when the answer is.
RuleInv ==
    /\ \A c \in Calls : <<c, "always">> \in choices => ClassifyRisk(req[c]) # "critical"
    /\ \A e \in saved.allow : \E c \in Calls : <<c, "always">> \in choices /\ Entry(req[c]) = e
    /\ \A e \in saved.deny : \E c \in Calls : <<c, "never">> \in choices /\ Entry(req[c]) = e
    /\ \A c \in Calls : <<c, "always">> \in choices /\ reply[c] = "yes" => Entry(req[c]) \in saved.allow

AnswersInv == OnceInv /\ YesInv /\ AnswerInv /\ RuleInv

ApprovalInv == AskInv /\ TypeInv /\ AnswersInv

----------------------------------------------------------------------------
(* Types.                                                                  *)

\* Calls are numbers, and none of them stands for no prompt.
LEMMA CallsAreNumbers == Calls \subseteq Nat /\ NoPrompt \notin Calls
BY RunAssumption DEF NoPrompt, NoCall

\* The frames the daemon makes are typed.
LEMMA FramesTyped ==
    /\ \A type \in Numbered, x \in Nat : Frame(type, x) \in DaemonFrame
    /\ \A c \in Calls : Frame("ConfirmationRequest", c) \in DaemonFrame
    /\ \A m \in Modes : Frame("PermissionModeChanged", m) \in DaemonFrame
    /\ \A c \in Calls, b \in BOOLEAN : Outcome(c, b) \in Seq(DaemonFrame)
BY DEF Frame, Outcome, DaemonFrame

\* The channel to the client stays typed when frames are sent.
LEMMA SendTyped ==
    ASSUME d2c \in Seq(DaemonFrame), NEW frames \in Seq(DaemonFrame), Send(frames) \/ TrySend(frames)
    PROVE  d2c' \in Seq(DaemonFrame)
BY ConcatProperties DEF Send, TrySend

\* What Receive and Deliver take is typed by its kind.
LEMMA Received ==
    ASSUME c2d \in Seq(ClientFrame), NEW type, Receive(type)
    PROVE  /\ c2d' \in Seq(ClientFrame)
           /\ Head(c2d) \in ClientFrame
           /\ type \in {"AgentRequest", "CancelRequest"} => Head(c2d).of \in Nat
           /\ type = "SetPermissionMode" => Head(c2d).of \in Modes
           /\ type = "Confirmation" => \E c \in Calls, k \in Kinds : Head(c2d).of = Answer(c, k)
<1>1. c2d # <<>> /\ c2d' = Tail(c2d) /\ Head(c2d).type = type
  BY DEF Receive
<1>2. c2d' \in Seq(ClientFrame) /\ Head(c2d) \in ClientFrame
  BY <1>1
<1>. QED  BY <1>1, <1>2 DEF ClientFrame

\* It stays typed when one is handled, and the frame carries what its kind says.
LEMMA Delivered ==
    ASSUME d2c \in Seq(DaemonFrame), NEW type, Deliver(type)
    PROVE  /\ d2c' \in Seq(DaemonFrame)
           /\ type = "ConfirmationRequest" => Head(d2c).of \in Calls
           /\ type = "PermissionModeChanged" => Head(d2c).of \in Modes
<1>1. d2c # <<>> /\ d2c' = Tail(d2c) /\ Head(d2c).type = type
  BY DEF Deliver
<1>2. d2c' \in Seq(DaemonFrame) /\ Head(d2c) \in DaemonFrame
  BY <1>1
<1>. QED  BY <1>1, <1>2 DEF DaemonFrame, Numbered

\* What a prompt can send, and that only the widest one has "always".
LEMMA OptionsAreKinds ==
    \A c \in Calls :
        /\ Len(Options(c)) \in 1 .. 4
        /\ \A i \in Nat : ResolveAction(c, i) \in Kinds
        /\ \A i \in Nat : ResolveAction(c, i) = "always" => ClassifyRisk(req[c]) # "critical"
BY DEF ResolveAction, Options, Kinds

\* Whatever key is pressed, one of the four answers is sent.
LEMMA PromptAnswers ==
    ASSUME prompt \in Calls \cup {NoPrompt}, PromptKey
    PROVE  \E k \in Kinds : SendConfirmation(k) /\ (k = "always" => ClassifyRisk(req[prompt]) # "critical")
<1>. DEFINE Sent(k) == k = "always" => ClassifyRisk(req[prompt]) # "critical"
<1>1. prompt \in Calls
  BY DEF PromptKey
<1>2. \A i \in Nat : ResolveAction(prompt, i) \in Kinds /\ Sent(ResolveAction(prompt, i))
  BY <1>1, OptionsAreKinds
<1>3. CASE PressEnter
  <2>1. PICK i \in 1 .. Len(Options(prompt)) : SendConfirmation(ResolveAction(prompt, i - 1))
    BY <1>3 DEF PressEnter
  <2>2. i - 1 \in Nat
    BY <1>1, OptionsAreKinds
  <2>. QED  BY <1>2, <2>1, <2>2
<1>4. ASSUME NEW d \in 1 .. 4, PressDigit(d) PROVE \E k \in Kinds : SendConfirmation(k) /\ Sent(k)
  <2>1. d - 1 \in Nat /\ SendConfirmation(ResolveAction(prompt, d - 1))
    BY <1>4 DEF PressDigit
  <2>. QED  BY <1>2, <2>1
<1>5. CASE RejectPrompt
  BY <1>5 DEF RejectPrompt, Kinds
<1>. QED  BY <1>3, <1>4, <1>5 DEF PromptKey

\* The kind of a step's frame is known, so the daemon's sends are typed.
LEMMA DaemonTypes ==
    ASSUME TypeInv, AskInv, RunNext, UNCHANGED viewVars
    PROVE  TypeInv'
<1>. USE DEF TypeInv
<1>a. UNCHANGED <<active, prompts, shown, prompt, choices>>
  BY DEF viewVars
<1>b. ASSUME NEW frames \in Seq(DaemonFrame), Send(frames) \/ TrySend(frames) PROVE d2c' \in Seq(DaemonFrame)
  BY <1>b, SendTyped
<1>1. ASSUME StreamStep \/ \E c \in Calls : ToolResult(c) PROVE TypeInv'
  <2>1. UNCHANGED <<c2d, turn, req, saved>>
    BY <1>1 DEF StreamStep, Chunk, ToolCall, Complete, Retry, BackoffOver, GiveUpRun, ToolResult, gateVars
  <2>2. \/ UNCHANGED d2c
        \/ \E type \in Numbered, x \in Nat : Send(<<Frame(type, x)>>)
        \/ \E c \in Calls : Send((IF StreamsArgs THEN <<Frame("ToolCallDelta", c)>> ELSE <<>>) \o <<Frame("ToolCall", c)>>)
    BY <1>1, CallsAreNumbers, RunAssumption DEF StreamStep, Chunk, ToolCall, Complete, Retry, BackoffOver, GiveUpRun,
      ToolResult, Numbered
  <2>3. \A type \in Numbered, x \in Nat : <<Frame(type, x)>> \in Seq(DaemonFrame)
    BY FramesTyped
  <2>4. \A c \in Calls :
          (IF StreamsArgs THEN <<Frame("ToolCallDelta", c)>> ELSE <<>>) \o <<Frame("ToolCall", c)>> \in Seq(DaemonFrame)
    <3>1. SUFFICES ASSUME NEW c \in Calls
          PROVE  (IF StreamsArgs THEN <<Frame("ToolCallDelta", c)>> ELSE <<>>) \o <<Frame("ToolCall", c)>> \in Seq(DaemonFrame)
      OBVIOUS
    <3>2. <<Frame("ToolCallDelta", c)>> \in Seq(DaemonFrame) /\ <<Frame("ToolCall", c)>> \in Seq(DaemonFrame)
      BY FramesTyped, CallsAreNumbers DEF Numbered
    <3>. QED  BY <3>2, ConcatProperties
  <2>5. d2c' \in Seq(DaemonFrame)
    BY <1>b, <2>2, <2>3, <2>4
  <2>. QED  BY <1>a, <2>1, <2>5
<1>2. CASE HandleAgentRequest
  <2>1. Receive("AgentRequest") /\ turn' = Head(c2d).of /\ UNCHANGED <<d2c, req, saved>>
    BY <1>2 DEF HandleAgentRequest, gateVars
  <2>. QED  BY <1>a, <2>1, Received
<1>3. CASE HandleCancelRequest
  <2>1. Receive("CancelRequest") /\ Send(<<Frame("AgentComplete", Head(c2d).of)>>) /\ UNCHANGED <<turn, req, saved>>
    BY <1>3 DEF HandleCancelRequest
  <2>2. c2d' \in Seq(ClientFrame) /\ <<Frame("AgentComplete", Head(c2d).of)>> \in Seq(DaemonFrame)
    BY <2>1, Received, FramesTyped DEF Numbered
  <2>. QED  BY <1>a, <1>b, <2>1, <2>2
<1>4. CASE OnSetPermissionMode
  <2>1. Receive("SetPermissionMode") /\ Send(<<Frame("PermissionModeChanged", Head(c2d).of)>>) /\ UNCHANGED <<turn, req, saved>>
    BY <1>4 DEF OnSetPermissionMode, HandleSetPermissionMode, runVars
  <2>2. c2d' \in Seq(ClientFrame) /\ <<Frame("PermissionModeChanged", Head(c2d).of)>> \in Seq(DaemonFrame)
    BY <2>1, Received, FramesTyped
  <2>. QED  BY <1>a, <1>b, <2>1, <2>2
<1>5. CASE OnConfirmation
  <2>1. Receive("Confirmation") /\ HandleConfirmation(Head(c2d).of) /\ UNCHANGED <<d2c, turn>>
    BY <1>5 DEF OnConfirmation, runVars
  <2>2. c2d' \in Seq(ClientFrame) /\ \E c \in Calls, k \in Kinds : Head(c2d).of = Answer(c, k)
    BY <2>1, Received
  <2>3. req' = req
    BY <2>1 DEF HandleConfirmation
  <2>4. saved' \in [allow : SUBSET SavedEntry, deny : SUBSET SavedEntry]
    <3>1. \A c \in Calls : Entry(req[c]) \in SavedEntry
      BY DEF SavedEntry
    <3>2. PICK c \in Calls, k \in Kinds : Head(c2d).of = Answer(c, k)
      BY <2>2
    <3>3. saved' = saved \/ saved' = Saving(Answer(c, k), req[c])
      BY <2>1, <3>2 DEF HandleConfirmation, Answer
    <3>4. Saving(Answer(c, k), req[c]) \in [allow : SUBSET SavedEntry, deny : SUBSET SavedEntry]
      BY <3>1 DEF Saving
    <3>. QED  BY <3>3, <3>4
  <2>. QED  BY <1>a, <2>1, <2>2, <2>3, <2>4
<1>6. CASE Reloads
  BY <1>a, <1>6 DEF Reloads, Reload, ReloadRules, ResetMode, runVars
<1>7. ASSUME NEW c \in Calls, Starts(c) PROVE TypeInv'
  <2>1. PICK q \in Requests[c] : Enter(c, q)
    BY <1>7 DEF Starts
  <2>2. UNCHANGED <<d2c, c2d, turn, saved>> /\ req' = [req EXCEPT ![c] = q]
    BY <1>7, <2>1 DEF Starts, Enter, runVars
  <2>. QED  BY <1>a, <2>2, GateAssumption DEF AnyRequest
<1>8. ASSUME NEW c \in Calls, Gate(c) PROVE TypeInv'
  <2>1. UNCHANGED <<c2d, turn, req, saved>>
    BY <1>8 DEF Gate, Evaluated, NotEvaluated, Ask, Answered, TimeOut, GiveUp, Execute, runVars
  <2>2. \/ UNCHANGED d2c
        \/ Send(<<Frame("ConfirmationRequest", c)>>)
        \/ \E b \in BOOLEAN : TrySend(Outcome(c, b))
    BY <1>8 DEF Gate
  <2>3. <<Frame("ConfirmationRequest", c)>> \in Seq(DaemonFrame) /\ \A b \in BOOLEAN : Outcome(c, b) \in Seq(DaemonFrame)
    BY FramesTyped
  <2>4. d2c' \in Seq(DaemonFrame)
    BY <1>b, <2>2, <2>3
  <2>. QED  BY <1>a, <2>1, <2>4
<1>9. ASSUME NEW c \in Calls, Vanishes(c) PROVE TypeInv'
  BY <1>a, <1>9 DEF Vanishes, Drop, runVars
<1>. QED  BY <1>1, <1>2, <1>3, <1>4, <1>5, <1>6, <1>7, <1>8, <1>9 DEF RunNext, LoopStep

\* Only what the client takes from its channel, and what it sends, matters here.
LEMMA ClientTypes ==
    ASSUME TypeInv, HandleFrame \/ PromptKey \/ FreeKey
    PROVE  TypeInv'
<1>. USE DEF TypeInv
<1>1. CASE HandleFrame
  <2>a. UNCHANGED <<c2d, turn, req, saved>>
    BY <1>1 DEF HandleFrame, gateVars, runVars
  <2>b. \E type : Deliver(type)
    BY <1>1 DEF HandleFrame, HandleText, HandleReasoning, HandleToolCallDelta, HandleToolCall, HandleToolResult,
      HandleAgentComplete, HandleError, HandleConfirmationRequest, HandleModeChanged, HandleOutcome
  <2>c. d2c' \in Seq(DaemonFrame)
    BY <2>b, Delivered
  <2>1. CASE HandleConfirmationRequest
    BY <2>a, <2>c, <2>1, Delivered DEF HandleConfirmationRequest, userVars
  <2>2. CASE HandleModeChanged
    BY <2>a, <2>c, <2>2, Delivered DEF HandleModeChanged
  <2>3. CASE HandleText \/ HandleReasoning \/ HandleToolCallDelta \/ HandleToolCall \/ HandleToolResult \/ HandleOutcome
    BY <2>a, <2>c, <2>3 DEF HandleText, HandleReasoning, HandleToolCallDelta, HandleToolCall, HandleToolResult,
        HandleOutcome, userVars
  <2>4. CASE HandleAgentComplete \/ HandleError
    BY <2>a, <2>c, <2>4 DEF HandleAgentComplete, HandleError
  <2>. QED  BY <1>1, <2>1, <2>2, <2>3, <2>4 DEF HandleFrame
<1>2. CASE PromptKey
  <2>1. PICK k \in Kinds : SendConfirmation(k)
    BY <1>2, PromptAnswers
  <2>2. prompt \in Calls /\ UNCHANGED <<d2c, turn, req, saved>>
    BY <1>2 DEF PromptKey, gateVars, runVars
  <2>3. Frame("Confirmation", Answer(prompt, k)) \in ClientFrame
    BY <2>2 DEF Frame, ClientFrame
  <2>. QED  BY <2>1, <2>2, <2>3 DEF SendConfirmation
<1>3. CASE FreeKey
  <2>1. UNCHANGED <<d2c, turn, req, saved, prompt, choices>>
    BY <1>3 DEF FreeKey, Submit, PressEsc, CycleMode, gateVars, runVars
  <2>2. NextMode[shown] \in Modes
    BY DEF NextMode, Modes
  <2>3. \E f \in ClientFrame : c2d' = Append(c2d, f)
    BY <1>3, <2>2 DEF FreeKey, Submit, PressEsc, CycleMode, Frame, ClientFrame
  <2>4. active' \in Nat /\ prompts' \in Nat /\ shown' \in Modes
    BY <1>3, <2>2 DEF FreeKey, Submit, PressEsc, CycleMode
  <2>. QED  BY <2>1, <2>3, <2>4
<1>. QED  BY <1>1, <1>2, <1>3

----------------------------------------------------------------------------
(* The daemon's steps.                                                     *)

\* A step that puts no question on the wire.
KeepsWire ==
    \A c \in Calls : (OnWire(c)' <=> OnWire(c)) /\ (Single(c) => Single(c)')

NoQuestion(frames) == \A i \in 1 .. Len(frames) : frames[i].type # "ConfirmationRequest"

\* Frames that are no question leave the questions on the wire.
LEMMA SendKeepsWire ==
    ASSUME d2c \in Seq(DaemonFrame), NEW frames \in Seq(DaemonFrame), NoQuestion(frames),
           Send(frames) \/ TrySend(frames) \/ UNCHANGED d2c
    PROVE  KeepsWire
<1>1. CASE d2c' = d2c
  BY <1>1 DEF KeepsWire, OnWire, Single, Asks
<1>2. CASE d2c' = d2c \o frames
  <2>1. /\ Len(d2c') = Len(d2c) + Len(frames) /\ Len(d2c) \in Nat /\ Len(frames) \in Nat
        /\ \A i \in 1 .. Len(d2c) : d2c'[i] = d2c[i]
        /\ \A i \in Len(d2c) + 1 .. Len(d2c') : d2c'[i] = frames[i - Len(d2c)]
    BY <1>2, ConcatProperties
  <2>2. \A i \in 1 .. Len(d2c') : d2c'[i].type = "ConfirmationRequest" => i \in 1 .. Len(d2c)
    BY <2>1 DEF NoQuestion
  <2>. QED  BY <2>1, <2>2 DEF KeepsWire, OnWire, Single, Asks
<1>. QED  BY <1>1, <1>2 DEF Send, TrySend

\* Nothing the answers depend on changes, but for a frame of the client that is
\* taken.
LEMMA QuietKeeps ==
    ASSUME TypeInv, AnswersInv, KeepsWire, UNCHANGED <<gate, reply, prompt, choices, req, saved>>,
           c2d' = c2d \/ (c2d # <<>> /\ c2d' = Tail(c2d))
    PROVE  AnswersInv'
<1>1. OnceInv' /\ YesInv'
  BY DEF AnswersInv, OnceInv, YesInv, IsAsked, HasChoice, Chosen, KeepsWire
<1>2. AnswerInv'
  <2>1. CASE c2d' = c2d
    BY <2>1 DEF AnswersInv, AnswerInv
  <2>2. CASE c2d # <<>> /\ c2d' = Tail(c2d)
    <3>1. \A i \in 1 .. Len(c2d') : i + 1 \in 1 .. Len(c2d) /\ c2d'[i] = c2d[i + 1]
      BY <2>2 DEF TypeInv
    <3>. QED  BY <3>1 DEF AnswersInv, AnswerInv
  <2>. QED  BY <2>1, <2>2
<1>3. RuleInv'
  BY DEF AnswersInv, RuleInv, ClassifyRisk, Entry
<1>. QED  BY <1>1, <1>2, <1>3 DEF AnswersInv

\* A call moves on without a question: it must not have been asked, or run only
\* by a yes.
LEMMA MoveKeeps ==
    ASSUME TypeInv, AskInv, AnswersInv, KeepsWire, UNCHANGED <<reply, prompt, choices, req, saved, c2d>>,
           NEW c \in Calls, NEW place \in Places, Move(c, place),
           IsAsked(c) => /\ place \notin {"idle", "evaluating", "asking"}
                         /\ place \in {"running", "ran"} => reply[c] = "yes"
    PROVE  AnswersInv'
<1>1. gate' = [gate EXCEPT ![c] = place] /\ gate \in [Calls -> Places]
  BY DEF Move, AskInv
<1>2. OnceInv'
  BY DEF AnswersInv, OnceInv, HasChoice, KeepsWire
<1>3. YesInv'
  BY <1>1 DEF AnswersInv, YesInv, IsAsked, HasChoice, Chosen, KeepsWire
<1>4. AnswerInv'
  BY DEF AnswersInv, AnswerInv
<1>5. RuleInv'
  BY DEF AnswersInv, RuleInv, ClassifyRisk, Entry
<1>. QED  BY <1>2, <1>3, <1>4, <1>5 DEF AnswersInv

\* A call starts: nobody has been asked about it, so no answer speaks of it.
LEMMA StartKeeps ==
    ASSUME TypeInv, AskInv, AnswersInv, UNCHANGED <<prompt, choices>>, NEW c \in Calls, Starts(c)
    PROVE  AnswersInv'
<1>1. PICK q \in Requests[c] : Enter(c, q)
  BY DEF Starts
<1>2. gate[c] = "idle" /\ req' = [req EXCEPT ![c] = q] /\ UNCHANGED <<d2c, c2d, reply, saved>>
  BY <1>1 DEF Starts, Enter
<1>3. \A d \in Calls : d # c => gate'[d] = gate[d] /\ req'[d] = req[d]
  BY <1>1, <1>2 DEF Enter, Move, AskInv, TypeInv
<1>4. ~ IsAsked(c) /\ \A k \in Kinds : <<c, k>> \notin choices
  BY <1>2 DEF AnswersInv, YesInv, IsAsked, HasChoice
<1>5. OnceInv'
  BY <1>2 DEF AnswersInv, OnceInv, HasChoice, OnWire, Single, Asks
<1>6. YesInv'
  BY <1>2, <1>3, <1>4 DEF AnswersInv, YesInv, IsAsked, HasChoice, Chosen, OnWire, Asks
<1>7. AnswerInv'
  BY <1>2 DEF AnswersInv, AnswerInv
<1>8. RuleInv'
  <2>1. \A d \in Calls, k \in Kinds : <<d, k>> \in choices => req'[d] = req[d]
    BY <1>3, <1>4
  <2>2. "always" \in Kinds /\ "never" \in Kinds
    BY DEF Kinds
  <2>3. \A d \in Calls : <<d, "always">> \in choices => ClassifyRisk(req[d])' = ClassifyRisk(req[d])
    BY <2>1, <2>2 DEF ClassifyRisk
  <2>4. \A d \in Calls : <<d, "always">> \in choices \/ <<d, "never">> \in choices => Entry(req[d])' = Entry(req[d])
    BY <2>1, <2>2 DEF Entry
  <2>. QED  BY <1>2, <2>3, <2>4 DEF AnswersInv, RuleInv
<1>. QED  BY <1>5, <1>6, <1>7, <1>8 DEF AnswersInv

\* The question goes out: it is the first about its call.
LEMMA AskKeeps ==
    ASSUME TypeInv, AskInv, AnswersInv, UNCHANGED <<prompt, choices, c2d>>, NEW c \in Calls,
           Ask(c), Send(<<Frame("ConfirmationRequest", c)>>)
    PROVE  AnswersInv'
<1>1. /\ gate[c] = "asking" /\ gate' = [gate EXCEPT ![c] = "waiting"] /\ gate \in [Calls -> Places]
      /\ UNCHANGED <<req, reply, saved>>
  BY DEF Ask, Move, AskInv
<1>2. ~ OnWire(c) /\ prompt # c /\ ~ HasChoice(c)
  BY <1>1 DEF AnswersInv, YesInv, IsAsked
<1>3. d2c' = Append(d2c, Frame("ConfirmationRequest", c))
  BY DEF Send, TypeInv
<1>4. /\ Len(d2c') = Len(d2c) + 1 /\ Len(d2c) \in Nat
      /\ \A i \in 1 .. Len(d2c) : d2c'[i] = d2c[i]
      /\ d2c'[Len(d2c) + 1] = Frame("ConfirmationRequest", c)
  BY <1>3 DEF TypeInv
<1>5. \A d \in Calls : d # c => (OnWire(d)' <=> OnWire(d)) /\ (Single(d) => Single(d)')
  BY <1>4 DEF OnWire, Single, Asks, Frame
<1>6. Single(c)'
  BY <1>2, <1>4 DEF OnWire, Single, Asks
<1>7. OnceInv'
  BY <1>2, <1>5, <1>6 DEF AnswersInv, OnceInv, HasChoice
<1>8. YesInv'
  BY <1>1, <1>5 DEF AnswersInv, YesInv, IsAsked, HasChoice, Chosen
<1>9. AnswerInv' /\ RuleInv'
  BY <1>1 DEF AnswersInv, AnswerInv, RuleInv, ClassifyRisk, Entry
<1>. QED  BY <1>7, <1>8, <1>9 DEF AnswersInv

\* An answer arrives: it is the user's, and the rule is saved with it.
LEMMA ConfirmationKeeps ==
    ASSUME TypeInv, AskInv, AnswersInv, UNCHANGED <<prompt, choices>>, OnConfirmation
    PROVE  AnswersInv'
<1>1. /\ c2d # <<>> /\ c2d' = Tail(c2d) /\ Head(c2d).type = "Confirmation"
      /\ HandleConfirmation(Head(c2d).of) /\ UNCHANGED d2c
  BY DEF OnConfirmation, Receive
<1>2. PICK c \in Calls, k \in Kinds : <<c, k>> \in choices /\ Head(c2d).of = Answer(c, k)
  <2>1. 1 \in 1 .. Len(c2d) /\ Head(c2d) = c2d[1]
    BY <1>1 DEF TypeInv
  <2>. QED  BY <1>1, <2>1 DEF AnswersInv, AnswerInv
<1>3. UNCHANGED <<req, gate>>
  BY <1>1 DEF HandleConfirmation
<1>4. \A l \in Kinds : <<c, l>> \in choices => l = k
  BY <1>2 DEF AnswersInv, OnceInv
<1>5. /\ Answer(c, k).call = c
      /\ Answer(c, k).approved <=> k \in Yes
      /\ Answer(c, k).allow <=> k = "always"
      /\ Answer(c, k).deny <=> k = "never"
  BY DEF Answer, Yes
<1>6. \/ reply' = reply
      \/ c \in pending /\ reply' = [reply EXCEPT ![c] = IF k \in Yes THEN "yes" ELSE "no"]
  BY <1>1, <1>2, <1>5 DEF HandleConfirmation
<1>7. \A d \in Calls : d # c => reply'[d] = reply[d]
  BY <1>6 DEF AskInv
<1>8. reply'[c] = "yes" => reply[c] = "yes" \/ (k \in Yes /\ c \in pending)
  BY <1>6 DEF AskInv
<1>9. reply[c] = "yes" => reply'[c] = "yes"
  BY <1>4, <1>6 DEF AskInv, PendingServed, AnswersInv, YesInv, Chosen, Yes, Kinds
<1>10. OnceInv'
  BY <1>1 DEF AnswersInv, OnceInv, HasChoice, OnWire, Single, Asks
<1>11. YesInv'
  BY <1>1, <1>2, <1>3, <1>7, <1>8, <1>9 DEF AnswersInv, YesInv, IsAsked, HasChoice, Chosen, OnWire, Asks
<1>12. AnswerInv'
  <2>1. \A i \in 1 .. Len(c2d') : i + 1 \in 1 .. Len(c2d) /\ c2d'[i] = c2d[i + 1]
    BY <1>1 DEF TypeInv
  <2>. QED  BY <2>1 DEF AnswersInv, AnswerInv
<1>13. RuleInv'
  <2>1. \/ saved' = saved
        \/ k = "always" /\ saved'.deny = saved.deny /\ saved'.allow = saved.allow \cup {Entry(req[c])}
        \/ k = "never" /\ saved'.allow = saved.allow /\ saved'.deny = saved.deny \cup {Entry(req[c])}
    BY <1>1, <1>2, <1>5 DEF HandleConfirmation, Saving, TypeInv, Yes
  <2>2. k = "always" /\ c \in pending => Entry(req[c]) \in saved'.allow
    BY <1>1, <1>2, <1>5 DEF HandleConfirmation, Saving, TypeInv, Yes, AskInv, PendingServed
  <2>3. saved.allow \subseteq saved'.allow
    BY <2>1
  <2>4. \A d \in Calls : <<d, "always">> \in choices' => ClassifyRisk(req[d])' # "critical"
    BY <1>3 DEF AnswersInv, RuleInv, ClassifyRisk
  <2>5. \A e \in saved'.allow : \E d \in Calls : <<d, "always">> \in choices' /\ Entry(req[d])' = e
    BY <1>2, <1>3, <2>1 DEF AnswersInv, RuleInv, Entry
  <2>6. \A e \in saved'.deny : \E d \in Calls : <<d, "never">> \in choices' /\ Entry(req[d])' = e
    BY <1>2, <1>3, <2>1 DEF AnswersInv, RuleInv, Entry
  <2>7. ASSUME NEW d \in Calls, <<d, "always">> \in choices, reply'[d] = "yes" PROVE Entry(req[d])' \in saved'.allow
    <3>1. CASE reply[d] = "yes"
      BY <1>3, <2>3, <2>7, <3>1 DEF AnswersInv, RuleInv, Entry
    <3>2. CASE reply[d] # "yes"
      <4>1. d = c /\ c \in pending
        BY <1>7, <1>8, <2>7, <3>2
      <4>2. k = "always"
        BY <1>4, <2>7, <4>1 DEF Kinds
      <4>. QED  BY <1>3, <2>2, <4>1, <4>2 DEF Entry
    <3>. QED  BY <3>1, <3>2
  <2>. QED  BY <2>4, <2>5, <2>6, <2>7 DEF RuleInv
<1>. QED  BY <1>10, <1>11, <1>12, <1>13 DEF AnswersInv

\* The steps of a call that ask nothing.
LEMMA GateKeeps ==
    ASSUME TypeInv, AskInv, AnswersInv, UNCHANGED <<prompt, choices>>, NEW c \in Calls, Gate(c) \/ Vanishes(c)
    PROVE  AnswersInv'
<1>. USE DEF Places
<1>a. UNCHANGED c2d
  BY DEF Gate, Vanishes
<1>b. ASSUME UNCHANGED d2c \/ \E b \in BOOLEAN : TrySend(Outcome(c, b)) PROVE KeepsWire
  <2>1. \A b \in BOOLEAN : Outcome(c, b) \in Seq(DaemonFrame) /\ NoQuestion(Outcome(c, b))
    BY FramesTyped DEF Outcome, NoQuestion
  <2>2. <<>> \in Seq(DaemonFrame) /\ NoQuestion(<<>>)
    BY DEF NoQuestion
  <2>. QED  BY <1>b, <2>1, <2>2, SendKeepsWire DEF TypeInv
<1>c. IsAsked(c) => gate[c] \notin {"idle", "evaluating", "asking"}
  BY DEF AnswersInv, YesInv
<1>1. CASE Ask(c) /\ Send(<<Frame("ConfirmationRequest", c)>>)
  BY <1>a, <1>1, AskKeeps
<1>2. CASE (Evaluated(c) /\ TrySend(Outcome(c, TRUE))) \/ (NotEvaluated(c) /\ UNCHANGED d2c)
  <2>1. ~ IsAsked(c)
    BY <1>2, <1>c DEF Evaluated, NotEvaluated
  <2>2. PICK place \in Places : Move(c, place)
    BY <1>2 DEF Evaluated, NotEvaluated
  <2>3. UNCHANGED <<reply, req, saved>> /\ KeepsWire
    BY <1>2, <1>b DEF Evaluated, NotEvaluated
  <2>. QED  BY <1>a, <2>1, <2>2, <2>3, MoveKeeps
<1>3. CASE Answered(c) /\ TrySend(Outcome(c, reply[c] = "yes"))
  <2>1. KeepsWire
    BY <1>3, <1>b
  <2>2. UNCHANGED <<reply, req, saved>>
    BY <1>3 DEF Answered
  <2>3. CASE reply[c] = "yes"
    BY <1>3, <1>a, <2>1, <2>2, <2>3, MoveKeeps DEF Answered
  <2>4. CASE reply[c] # "yes"
    BY <1>3, <1>a, <2>1, <2>2, <2>4, MoveKeeps DEF Answered
  <2>. QED  BY <2>3, <2>4
<1>4. CASE Execute(c) /\ UNCHANGED d2c
  <2>1. IsAsked(c) => reply[c] = "yes"
    BY <1>4 DEF Execute, AnswersInv, YesInv
  <2>2. Move(c, "ran") /\ UNCHANGED <<reply, req, saved>> /\ KeepsWire
    BY <1>4, <1>b DEF Execute
  <2>. QED  BY <1>a, <2>1, <2>2, MoveKeeps
<1>5. CASE (TimeOut(c) /\ UNCHANGED d2c) \/ (GiveUp(c) /\ TrySend(Outcome(c, FALSE))) \/ Vanishes(c)
  <2>1. UNCHANGED <<reply, req, saved>> /\ KeepsWire
    BY <1>5, <1>b DEF TimeOut, GiveUp, Vanishes, Drop
  <2>2. PICK place \in {"late", "refused", "dropped"} : Move(c, place)
    BY <1>5 DEF TimeOut, GiveUp, Vanishes, Drop
  <2>. QED  BY <1>a, <2>1, <2>2, MoveKeeps
<1>. QED  BY <1>1, <1>2, <1>3, <1>4, <1>5 DEF Gate

\* The steps of the stream and the main loop that leave the answers alone.
LEMMA OtherKeeps ==
    ASSUME TypeInv, AskInv, AnswersInv, UNCHANGED <<prompt, choices>>,
           \/ StreamStep \/ (\E c \in Calls : ToolResult(c))
           \/ HandleAgentRequest \/ HandleCancelRequest \/ OnSetPermissionMode \/ Reloads
    PROVE  AnswersInv'
<1>1. /\ UNCHANGED <<gate, reply, req, saved>>
      /\ c2d' = c2d \/ (c2d # <<>> /\ c2d' = Tail(c2d))
  BY DEF StreamStep, Chunk, ToolCall, Complete, Retry, BackoffOver, GiveUpRun, ToolResult, HandleAgentRequest,
    HandleCancelRequest, OnSetPermissionMode, HandleSetPermissionMode, Reloads, Reload, ReloadRules, ResetMode, Receive, gateVars
<1>2. ASSUME NEW frames \in Seq(DaemonFrame), NoQuestion(frames), Send(frames) PROVE KeepsWire
  BY <1>2, SendKeepsWire DEF TypeInv
<1>3. \A type \in Numbered, x \in Nat : <<Frame(type, x)>> \in Seq(DaemonFrame) /\ NoQuestion(<<Frame(type, x)>>)
  BY FramesTyped DEF NoQuestion, Frame, Numbered
<1>4. \A c \in Calls : Frame("ToolCall", c) \in DaemonFrame /\ Frame("ToolCallDelta", c) \in DaemonFrame
  BY FramesTyped, CallsAreNumbers DEF Numbered
<1>5. ASSUME UNCHANGED d2c PROVE KeepsWire
  BY <1>5 DEF KeepsWire, OnWire, Single, Asks
<1>6. ASSUME \E type \in Numbered, x \in Nat : Send(<<Frame(type, x)>>) PROVE KeepsWire
  BY <1>2, <1>3, <1>6
<1>7. ASSUME NEW c \in Calls,
             Send((IF StreamsArgs THEN <<Frame("ToolCallDelta", c)>> ELSE <<>>) \o <<Frame("ToolCall", c)>>)
      PROVE  KeepsWire
  <2>. DEFINE first == IF StreamsArgs THEN <<Frame("ToolCallDelta", c)>> ELSE <<>>
              last == <<Frame("ToolCall", c)>>
  <2>1. \A f \in DaemonFrame : f.type # "ConfirmationRequest" => <<f>> \in Seq(DaemonFrame) /\ NoQuestion(<<f>>)
    BY DEF NoQuestion
  <2>2. <<>> \in Seq(DaemonFrame) /\ NoQuestion(<<>>)
    BY DEF NoQuestion
  <2>3. Frame("ToolCall", c).type # "ConfirmationRequest" /\ Frame("ToolCallDelta", c).type # "ConfirmationRequest"
    BY DEF Frame
  <2>4. first \in Seq(DaemonFrame) /\ NoQuestion(first) /\ last \in Seq(DaemonFrame) /\ NoQuestion(last)
    BY <1>4, <2>1, <2>2, <2>3
  <2>. HIDE DEF first, last
  <2>5. first \o last \in Seq(DaemonFrame) /\ NoQuestion(first \o last)
    BY <2>4, ConcatProperties DEF NoQuestion
  <2>6. Send(first \o last)
    BY <1>7 DEF first, last
  <2>. QED  BY <1>2, <2>5, <2>6
<1>8. ASSUME OnSetPermissionMode PROVE KeepsWire
  <2>1. Send(<<Frame("PermissionModeChanged", Head(c2d).of)>>) /\ Head(c2d).of \in Modes
    BY <1>8, Received DEF OnSetPermissionMode, TypeInv
  <2>2. <<Frame("PermissionModeChanged", Head(c2d).of)>> \in Seq(DaemonFrame)
    BY <2>1, FramesTyped
  <2>3. NoQuestion(<<Frame("PermissionModeChanged", Head(c2d).of)>>)
    BY DEF NoQuestion, Frame
  <2>. QED  BY <1>2, <2>1, <2>2, <2>3
<1>9. ASSUME HandleCancelRequest PROVE KeepsWire
  <2>1. Send(<<Frame("AgentComplete", Head(c2d).of)>>) /\ Head(c2d).of \in Nat
    BY <1>9, Received DEF HandleCancelRequest, TypeInv
  <2>. QED  BY <1>6, <2>1 DEF Numbered
<1>10. CASE StreamStep \/ \E c \in Calls : ToolResult(c)
  <2>1. \/ UNCHANGED d2c
        \/ \E type \in Numbered, x \in Nat : Send(<<Frame(type, x)>>)
        \/ \E c \in Calls : Send((IF StreamsArgs THEN <<Frame("ToolCallDelta", c)>> ELSE <<>>) \o <<Frame("ToolCall", c)>>)
    BY <1>10, CallsAreNumbers, RunAssumption
    DEF TypeInv, StreamStep, Chunk, ToolCall, Complete, Retry, BackoffOver, GiveUpRun, ToolResult, Numbered
  <2>. QED  BY <1>1, <1>5, <1>6, <1>7, <2>1, QuietKeeps
<1>11. CASE HandleAgentRequest \/ Reloads
  BY <1>1, <1>5, <1>11, QuietKeeps DEF HandleAgentRequest, Reloads
<1>12. CASE OnSetPermissionMode \/ HandleCancelRequest
  BY <1>1, <1>8, <1>9, <1>12, QuietKeeps
<1>. QED  BY <1>10, <1>11, <1>12

----------------------------------------------------------------------------
(* The client's steps.                                                     *)

\* Of a question that is taken nothing is left on the wire.
LEMMA TakenFromWire ==
    ASSUME d2c \in Seq(DaemonFrame), d2c # <<>>, d2c' = Tail(d2c), NEW c
    PROVE  /\ OnWire(c)' => OnWire(c)
           /\ Single(c) => Single(c)'
           /\ Asks(Head(d2c), c) => OnWire(c) /\ (Single(c) => ~ OnWire(c)')
<1>1. /\ Len(d2c) \in Nat \ {0} /\ Len(d2c') = Len(d2c) - 1 /\ Head(d2c) = d2c[1]
      /\ \A i \in 1 .. Len(d2c') : d2c'[i] = d2c[i + 1]
  OBVIOUS
<1>2. \A i \in 1 .. Len(d2c') : i \in Nat /\ i + 1 \in 1 .. Len(d2c) /\ i + 1 # 1
  BY <1>1
<1>3. 1 \in 1 .. Len(d2c)
  BY <1>1
<1>4. OnWire(c)' => OnWire(c)
  BY <1>1, <1>2 DEF OnWire, Asks
<1>5. Single(c) => Single(c)'
  <2>. SUFFICES ASSUME Single(c), NEW i \in 1 .. Len(d2c'), NEW j \in 1 .. Len(d2c'),
                       Asks(d2c'[i], c), Asks(d2c'[j], c)
       PROVE  i = j
    BY DEF Single, Asks
  <2>1. i + 1 = j + 1
    BY <1>1, <1>2 DEF Single
  <2>. QED  BY <1>2, <2>1
<1>6. Asks(Head(d2c), c) => OnWire(c)
  BY <1>1, <1>3 DEF OnWire
<1>7. ASSUME Asks(Head(d2c), c), Single(c), NEW i \in 1 .. Len(d2c'), Asks(d2c'[i], c) PROVE FALSE
  BY <1>1, <1>2, <1>3, <1>7 DEF Single
<1>. QED  BY <1>4, <1>5, <1>6, <1>7 DEF OnWire, Asks

\* A frame is taken from the wire; a question goes to the screen, over the one
\* that is there.
LEMMA FrameKeeps ==
    ASSUME TypeInv, AnswersInv, HandleFrame
    PROVE  AnswersInv'
<1>1. UNCHANGED <<c2d, req, gate, reply, saved>>
  BY DEF HandleFrame, gateVars, runVars
<1>2. choices' = choices /\ d2c # <<>> /\ d2c' = Tail(d2c)
  BY DEF HandleFrame, HandleText, HandleReasoning, HandleToolCallDelta, HandleToolCall, HandleToolResult,
    HandleAgentComplete, HandleError, HandleConfirmationRequest, HandleModeChanged, HandleOutcome, Deliver, userVars
<1>3. \A c : /\ OnWire(c)' => OnWire(c)
             /\ Single(c) => Single(c)'
             /\ Asks(Head(d2c), c) => OnWire(c) /\ (Single(c) => ~ OnWire(c)')
  BY <1>2, TakenFromWire DEF TypeInv
<1>4. prompt' = prompt \/ (Asks(Head(d2c), prompt') /\ prompt' \in Calls)
  <2>1. CASE HandleConfirmationRequest
    BY <2>1, Delivered DEF HandleConfirmationRequest, Asks, Deliver, TypeInv
  <2>2. CASE ~ HandleConfirmationRequest
    BY <2>2 DEF HandleFrame, HandleText, HandleReasoning, HandleToolCallDelta, HandleToolCall, HandleToolResult,
      HandleAgentComplete, HandleError, HandleModeChanged, HandleOutcome
  <2>. QED  BY <2>1, <2>2
<1>5. \A c : c = prompt' /\ c # prompt => OnWire(c) /\ (Single(c) => ~ OnWire(c)')
  BY <1>3, <1>4
<1>6. OnceInv'
  <2>. SUFFICES ASSUME NEW c \in Calls
       PROVE  /\ Single(c)'
              /\ OnWire(c)' => c # prompt' /\ ~ HasChoice(c)'
              /\ c = prompt' => ~ HasChoice(c)'
              /\ \A k, l \in Kinds : <<c, k>> \in choices' /\ <<c, l>> \in choices' => k = l
    BY DEF OnceInv
  <2>1. HasChoice(c)' <=> HasChoice(c)
    BY <1>2 DEF HasChoice
  <2>2. /\ Single(c)
        /\ OnWire(c) => c # prompt /\ ~ HasChoice(c)
        /\ c = prompt => ~ HasChoice(c)
        /\ \A k, l \in Kinds : <<c, k>> \in choices /\ <<c, l>> \in choices => k = l
    BY DEF AnswersInv, OnceInv
  <2>. QED  BY <1>2, <1>3, <1>5, <2>1, <2>2
<1>7. \A c \in Calls : IsAsked(c)' => IsAsked(c)
  BY <1>2, <1>3, <1>4, <1>5 DEF IsAsked, HasChoice
<1>8. YesInv'
  BY <1>1, <1>2, <1>7 DEF AnswersInv, YesInv, Chosen
<1>9. AnswerInv' /\ RuleInv'
  BY <1>1, <1>2 DEF AnswersInv, AnswerInv, RuleInv, ClassifyRisk, Entry
<1>. QED  BY <1>6, <1>8, <1>9 DEF AnswersInv

\* The user answers: the question leaves the screen with that, for good.
LEMMA PromptKeeps ==
    ASSUME TypeInv, AnswersInv, PromptKey
    PROVE  AnswersInv'
<1>1. PICK k \in Kinds : SendConfirmation(k) /\ (k = "always" => ClassifyRisk(req[prompt]) # "critical")
  BY PromptAnswers DEF TypeInv
<1>2. prompt \in Calls /\ UNCHANGED <<d2c, req, gate, reply, saved>>
  BY DEF PromptKey, TypeInv, gateVars, runVars
<1>3. /\ prompt' = NoPrompt /\ choices' = choices \cup {<<prompt, k>>}
      /\ c2d' = Append(c2d, Frame("Confirmation", Answer(prompt, k)))
  BY <1>1 DEF SendConfirmation
<1>4. ~ OnWire(prompt) /\ ~ HasChoice(prompt) /\ IsAsked(prompt)
  BY <1>2 DEF AnswersInv, OnceInv, IsAsked
<1>5. \A c \in Calls : prompt' # c
  BY <1>3, CallsAreNumbers
<1>6. \A c \in Calls : HasChoice(c)' <=> HasChoice(c) \/ c = prompt
  BY <1>2, <1>3 DEF HasChoice
<1>7. \A c \in Calls : OnWire(c)' = OnWire(c) /\ Single(c)' = Single(c)
  BY <1>2 DEF OnWire, Single, Asks
<1>8. OnceInv'
  <2>1. ASSUME NEW c \in Calls, NEW x \in Kinds, NEW y \in Kinds, <<c, x>> \in choices', <<c, y>> \in choices'
        PROVE  x = y
    BY <1>3, <1>4, <2>1 DEF AnswersInv, OnceInv, HasChoice
  <2>2. \A c \in Calls : OnWire(c)' => prompt' # c /\ ~ HasChoice(c)'
    BY <1>4, <1>5, <1>6, <1>7 DEF AnswersInv, OnceInv
  <2>. QED  BY <1>5, <1>7, <2>1, <2>2 DEF AnswersInv, OnceInv
<1>9. YesInv'
  <2>1. \A c \in Calls : IsAsked(c)' => IsAsked(c)
    BY <1>4, <1>5, <1>6, <1>7 DEF IsAsked
  <2>2. \A c \in Calls : Chosen(c, Yes) => Chosen(c, Yes)'
    BY <1>3 DEF Chosen
  <2>. QED  BY <1>2, <2>1, <2>2 DEF AnswersInv, YesInv
<1>10. AnswerInv'
  <2>1. /\ Len(c2d') = Len(c2d) + 1 /\ Len(c2d) \in Nat
        /\ \A i \in 1 .. Len(c2d) : c2d'[i] = c2d[i]
        /\ c2d'[Len(c2d) + 1].of = Answer(prompt, k)
    BY <1>3 DEF TypeInv, Frame
  <2>2. \A i \in 1 .. Len(c2d') : i \in 1 .. Len(c2d) \/ i = Len(c2d) + 1
    BY <2>1
  <2>3. choices \subseteq choices' /\ <<prompt, k>> \in choices'
    BY <1>3
  <2>. QED  BY <1>2, <2>1, <2>2, <2>3 DEF AnswersInv, AnswerInv
<1>11. RuleInv'
  <2>1. \A c \in Calls, x \in Kinds : <<c, x>> \in choices' => <<c, x>> \in choices \/ (c = prompt /\ x = k)
    BY <1>3
  <2>2. choices \subseteq choices' /\ "always" \in Kinds /\ "never" \in Kinds
    BY <1>3 DEF Kinds
  <2>3. \A c \in Calls : <<c, "always">> \in choices' => ClassifyRisk(req[c])' # "critical"
    BY <1>1, <1>2, <2>1, <2>2 DEF AnswersInv, RuleInv, ClassifyRisk
  <2>4. reply[prompt] # "yes"
    BY <1>2, <1>4 DEF AnswersInv, YesInv, Chosen, HasChoice, Yes, Kinds
  <2>5. \A c \in Calls : <<c, "always">> \in choices' /\ reply[c] = "yes" => Entry(req[c]) \in saved.allow
    BY <2>1, <2>2, <2>4 DEF AnswersInv, RuleInv
  <2>. QED  BY <1>2, <2>2, <2>3, <2>5 DEF AnswersInv, RuleInv, Entry
<1>. QED  BY <1>8, <1>9, <1>10, <1>11 DEF AnswersInv

\* The other keys answer nothing.
LEMMA KeyKeeps ==
    ASSUME TypeInv, AnswersInv, FreeKey
    PROVE  AnswersInv'
<1>1. UNCHANGED <<d2c, req, gate, reply, saved, prompt, choices>>
  BY DEF FreeKey, Submit, PressEsc, CycleMode, gateVars, runVars
<1>2. PICK type \in {"AgentRequest", "CancelRequest", "SetPermissionMode"} :
         \E x : c2d' = Append(c2d, Frame(type, x))
  BY DEF FreeKey, Submit, PressEsc, CycleMode
<1>3. /\ Len(c2d') = Len(c2d) + 1 /\ Len(c2d) \in Nat
      /\ \A i \in 1 .. Len(c2d) : c2d'[i] = c2d[i]
      /\ c2d'[Len(c2d) + 1].type # "Confirmation"
  BY <1>2 DEF TypeInv, Frame
<1>4. AnswerInv'
  <2>1. \A i \in 1 .. Len(c2d') : c2d'[i].type = "Confirmation" => i \in 1 .. Len(c2d) /\ c2d'[i] = c2d[i]
    BY <1>3
  <2>. QED  BY <1>1, <2>1 DEF AnswersInv, AnswerInv
<1>5. OnceInv'
  BY <1>1 DEF AnswersInv, OnceInv, HasChoice, OnWire, Single, Asks
<1>6. YesInv'
  BY <1>1 DEF AnswersInv, YesInv, IsAsked, HasChoice, Chosen, OnWire, Asks
<1>7. RuleInv'
  BY <1>1 DEF AnswersInv, RuleInv, ClassifyRisk, Entry
<1>. QED  BY <1>4, <1>5, <1>6, <1>7 DEF AnswersInv

----------------------------------------------------------------------------
(* The invariant and what it says.                                         *)

\* Nothing is asked or answered at first.
LEMMA InitApproval == Init => ApprovalInv
<1>. SUFFICES ASSUME Init PROVE ApprovalInv
  OBVIOUS
<1>1. AskInv
  BY InitAsk DEF Init
<1>2. TypeInv
  <2>1. NoRules \in [allow : SUBSET SavedEntry, deny : SUBSET SavedEntry]
    BY DEF NoRules
  <2>2. <<>> \in Seq(DaemonFrame) /\ <<>> \in Seq(ClientFrame)
    OBVIOUS
  <2>3. req = [c \in Calls |-> NoRequest] /\ saved = NoRules /\ d2c = <<>> /\ c2d = <<>> /\ turn = 0
    BY DEF Init, GateInit, RunInit
  <2>4. active = 0 /\ prompts = 0 /\ shown \in Modes /\ prompt = NoPrompt /\ choices = {}
    BY DEF Init, ViewInit, Modes
  <2>. QED  BY <2>1, <2>2, <2>3, <2>4 DEF TypeInv, AnyRequest
<1>3. OnceInv /\ YesInv /\ AnswerInv /\ RuleInv
  BY CallsAreNumbers DEF Init, GateInit, RunInit, ViewInit, OnceInv, YesInv, AnswerInv, RuleInv, IsAsked, HasChoice, OnWire,
    Single, NoRules
<1>. QED  BY <1>1, <1>2, <1>3 DEF ApprovalInv, AnswersInv

\* What the gate's proof assumes of its client follows from the types.
LEMMA ModesAreTyped == TypeInv => ModesArrive
BY DEF TypeInv, ModesArrive, ClientFrame

\* Each part of the system keeps the invariant.
LEMMA StepApproval == ApprovalInv /\ [Next]_vars => ApprovalInv'
<1>. SUFFICES ASSUME ApprovalInv, [Next]_vars PROVE ApprovalInv'
  OBVIOUS
<1>. USE DEF ApprovalInv
<1>1. CASE DaemonStep
  <2>1. RunNext /\ UNCHANGED viewVars /\ UNCHANGED <<prompt, choices>>
    BY <1>1 DEF DaemonStep, viewVars
  <2>2. AskInv'
    BY <2>1, StepAsks, ModesAreTyped
  <2>3. TypeInv'
    BY <2>1, DaemonTypes
  <2>4. AnswersInv'
    BY <2>1, StartKeeps, GateKeeps, ConfirmationKeeps, OtherKeeps DEF RunNext, LoopStep
  <2>. QED  BY <2>2, <2>3, <2>4
<1>2. CASE HandleFrame \/ PromptKey \/ FreeKey
  <2>1. UNCHANGED gateVars
    BY <1>2 DEF HandleFrame, PromptKey, FreeKey
  <2>2. AskInv'
    BY <2>1, StepAsks, ModesAreTyped
  <2>3. TypeInv' /\ AnswersInv'
    BY <1>2, ClientTypes, FrameKeeps, PromptKeeps, KeyKeeps
  <2>. QED  BY <2>2, <2>3
<1>3. CASE UNCHANGED vars
  <2>1. UNCHANGED gateVars /\ UNCHANGED <<d2c, c2d, turn, active, prompts, shown, prompt, choices>>
    BY <1>3 DEF vars, runVars, viewVars
  <2>2. AskInv'
    BY <2>1, StepAsks, ModesAreTyped
  <2>3. TypeInv'
    BY <2>1 DEF TypeInv, gateVars
  <2>4. KeepsWire
    BY <2>1 DEF KeepsWire, OnWire, Single, Asks
  <2>5. AnswersInv'
    BY <2>1, <2>4, QuietKeeps DEF gateVars
  <2>. QED  BY <2>2, <2>3, <2>5
<1>. QED  BY <1>1, <1>2, <1>3 DEF Next

\* The invariant holds in every state.
LEMMA Approval == ToolSpec => []ApprovalInv
BY InitApproval, StepApproval, PTL DEF ToolSpec

\* While a call waits for the user the daemon can deliver the answer, in a run
\* with this client, whose messages are typed (permissions.rs).
THEOREM QuestionsServedInRuns == ToolSpec => []PendingServed
<1>1. ApprovalInv => PendingServed
  BY DEF ApprovalInv, AskInv
<1>. QED  BY Approval, <1>1, PTL

\* A call the user has refused does not run, whichever question replaced its own
\* and whenever the answer arrives (keys/confirmation.rs, handlers/permission.rs).
THEOREM NoRefusedCallRuns == ToolSpec => []RefusedStaysOut
<1>1. ApprovalInv => RefusedStaysOut
  <2>. SUFFICES ASSUME ApprovalInv, NEW c \in Calls, Chosen(c, {"reject", "never"}), gate[c] \in {"running", "ran"}
       PROVE  FALSE
    BY DEF RefusedStaysOut
  <2>1. PICK k \in {"reject", "never"} : <<c, k>> \in choices
    BY DEF Chosen
  <2>2. IsAsked(c)
    BY <2>1 DEF IsAsked, HasChoice, Kinds
  <2>3. PICK l \in Yes : <<c, l>> \in choices
    BY <2>2 DEF ApprovalInv, AnswersInv, YesInv, Chosen
  <2>4. k = l
    BY <2>1, <2>3 DEF ApprovalInv, AnswersInv, OnceInv, Kinds, Yes
  <2>. QED  BY <2>1, <2>3, <2>4 DEF Yes
<1>. QED  BY Approval, <1>1, PTL

\* The rules in config.toml are the user's: each is the entry of a call to which
\* the user gave a permanent answer, an allow that of a call not itself
\* critical, and "always" has its rule before the call runs
\* (handle_confirmation). An entry matches by the first two words, so it may let
\* through later calls whose risk nobody was asked about.
THEOREM RulesAreTheUsers == ToolSpec => []SavedAsAnswered
<1>1. ApprovalInv => SavedAsAnswered
  <2>. SUFFICES ASSUME ApprovalInv PROVE SavedAsAnswered
    OBVIOUS
  <2>1. \A c \in Calls : <<c, "always">> \in choices /\ gate[c] \in {"running", "ran"} => reply[c] = "yes"
    BY DEF ApprovalInv, AnswersInv, YesInv, IsAsked, HasChoice, Kinds
  <2>. QED  BY <2>1 DEF ApprovalInv, AnswersInv, RuleInv, SavedAsAnswered
<1>. QED  BY Approval, <1>1, PTL

\* A call that is asked about runs only if the user approved that very call: no
\* timeout, late answer or answer to another prompt lets it run (permissions.rs,
\* request_confirmation).
THEOREM OnlyApprovedCallsRun == ToolSpec => RunsOnlyIfApproved
<1>1. ApprovalInv /\ [Next]_vars =>
        [\A c \in Calls : gate[c] \in {"asking", "waiting", "late"} /\ gate'[c] = "running"
             => Chosen(c, {"once", "always"})]_vars
  <2>. SUFFICES ASSUME ApprovalInv, Next, NEW c \in Calls,
                       gate[c] \in {"asking", "waiting", "late"}, gate'[c] = "running"
       PROVE  Chosen(c, {"once", "always"})
    OBVIOUS
  <2>1. gate' # gate
    OBVIOUS
  <2>2. PICK d \in Calls : Starts(d) \/ Gate(d) \/ Vanishes(d)
    BY <2>1 DEF Next, DaemonStep, HandleFrame, PromptKey, FreeKey, RunNext, StreamStep, LoopStep, Chunk, ToolCall,
      Complete, Retry, BackoffOver, GiveUpRun, ToolResult, HandleAgentRequest, HandleCancelRequest, OnConfirmation,
      HandleConfirmation, OnSetPermissionMode, HandleSetPermissionMode, Reloads, Reload, ReloadRules, ResetMode, gateVars
  <2>3. gate \in [Calls -> Places]
    BY DEF ApprovalInv, AskInv
  <2>4. PICK place : gate' = [gate EXCEPT ![d] = place]
    BY <2>2 DEF Starts, Enter, Gate, Evaluated, NotEvaluated, Ask, Answered, TimeOut, GiveUp, Execute, Vanishes, Drop, Move
  <2>5. d = c
    BY <2>3, <2>4
  <2>6. reply[c] = "yes"
    BY <2>2, <2>3, <2>5
    DEF Starts, Enter, Gate, Evaluated, NotEvaluated, Ask, Answered, TimeOut, GiveUp, Execute, Vanishes, Drop, Move
  <2>. QED  BY <2>6 DEF ApprovalInv, AnswersInv, YesInv, Yes
<1>. QED  BY Approval, <1>1, PTL DEF ToolSpec, RunsOnlyIfApproved
=============================================================================
