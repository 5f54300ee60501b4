--------------------------- MODULE PermissionGate ---------------------------
(***************************************************************************)
(* The gate before every tool call of an agent (codivd/src/agent/          *)
(* permissions.rs, permission_evaluator.rs, handlers/permission.rs): the   *)
(* saved rules, the policy of the session's mode, the model that judges,   *)
(* and the question to the user with its 60 s limit.                       *)
(***************************************************************************)
EXTENDS Integers, Sequences

CONSTANTS Calls,       \* the tool calls an agent may make
          Requests,    \* Requests[c]: what the call may ask for
          ConfigMode   \* [permissions] mode in config.toml

Modes  == {"auto", "manual", "bypass"}
Risks  == {"low", "medium", "high", "critical"}
Native == {"read", "write", "edit", "glob", "grep"}
NoArgs == "none"

\* A tool, the subcommand pattern of its arguments (bash only), the risk of the
\* arguments and whether a bash command only reads.
ToolRequest == [tool : Native \cup {"bash"}, pattern : STRING, risk : Risks, readonly : BOOLEAN]

ASSUME GateAssumption ==
    /\ ConfigMode \in Modes
    /\ Requests \in [Calls -> SUBSET ToolRequest]

VARIABLES req,     \* req[c]: what the call asks for
          gate,    \* gate[c]: where the call is on its way
          doomed,  \* calls whose task was told to abort
          pending, \* PermissionContext::pending: questions that have a sender
          meta,    \* pending_meta: questions whose tool and arguments are kept
          reply,   \* reply[c]: the oneshot of a question
          mode,    \* PermissionContext::mode
          rules,   \* AppConfig::permissions, in memory
          saved,   \* the same in config.toml
          reset    \* the configuration has set the mode, not the user since

gateVars == <<req, gate, doomed, pending, meta, reply, mode, rules, saved, reset>>

\* idle: not made.  checked .. waiting: before the next await of the wrapper.
\* late: its minute is over, the question not yet withdrawn.  running: the tool
\* itself.  ran, refused: the wrapper has returned.  dropped: its future is gone.
Places == {"idle", "evaluating", "asking", "waiting", "late", "running", "ran", "refused", "dropped"}
Over   == {"ran", "refused", "dropped"}

Entry(q)     == <<q.tool, q.pattern>>
NoRules      == [allow |-> {}, deny |-> {}]
NoRequest    == [tool |-> "read", pattern |-> NoArgs, risk |-> "low", readonly |-> TRUE]

----------------------------------------------------------------------------
(* The decision, without state.                                            *)

\* The entry with its pattern decides first, then the one for the whole tool;
\* between two of a kind, deny does.
Lookup(r, q) ==
    LET Named(e) == IF e \in r.deny THEN "deny" ELSE IF e \in r.allow THEN "allow" ELSE "none"
    IN  IF Named(Entry(q)) = "none" /\ q.pattern # NoArgs
        THEN Named(<<q.tool, NoArgs>>)
        ELSE Named(Entry(q))

ClassifyRisk(q) ==
    CASE q.tool \in {"read", "glob", "grep"} -> "low"
      [] q.tool \in {"write", "edit"}        -> "medium"
      [] OTHER                               -> q.risk

EvaluatePermission(m, q) ==
    LET risk == ClassifyRisk(q) IN
    CASE m = "manual" -> IF q.tool \in {"read", "glob", "grep"} \/ (q.tool = "bash" /\ q.readonly)
                         THEN "allow" ELSE "prompt"
      [] m = "auto"   -> IF risk = "critical" THEN "prompt"
                         ELSE IF risk = "high" THEN "evaluate" ELSE "allow"
      [] m = "bypass" -> IF risk = "critical" THEN "prompt" ELSE "allow"

CheckPermission(r, m, q) ==
    IF Lookup(r, q) # "none" THEN Lookup(r, q) ELSE EvaluatePermission(m, q)

----------------------------------------------------------------------------
(* The wrapper around one tool call.                                       *)

GateInit ==
    /\ req     = [c \in Calls |-> NoRequest]
    /\ gate    = [c \in Calls |-> "idle"]
    /\ doomed  = {}
    /\ pending = {}
    /\ meta    = {}
    /\ reply   = [c \in Calls |-> "none"]
    /\ mode    = ConfigMode
    /\ rules   = NoRules
    /\ saved   = NoRules
    /\ reset   = TRUE

Move(c, place) == gate' = [gate EXCEPT ![c] = place]

\* The library hands a call to its tool: the rules and the mode of this moment
\* decide whether it runs, is refused, is judged or is put to the user.
Enter(c, q) ==
    /\ gate[c] = "idle"
    /\ req' = [req EXCEPT ![c] = q]
    /\ Move(c, CASE CheckPermission(rules, mode, q) = "allow"    -> "running"
                 [] CheckPermission(rules, mode, q) = "deny"     -> "refused"
                 [] CheckPermission(rules, mode, q) = "prompt"   -> "asking"
                 [] CheckPermission(rules, mode, q) = "evaluate" -> "evaluating")
    /\ UNCHANGED <<doomed, pending, meta, reply, mode, rules, saved, reset>>

\* The judging model has answered ALLOW.
Evaluated(c) ==
    /\ gate[c] = "evaluating"
    /\ Move(c, "running")
    /\ UNCHANGED <<req, doomed, pending, meta, reply, mode, rules, saved, reset>>

\* It has answered anything else, failed, is not configured, or took 10 s.
NotEvaluated(c) ==
    /\ gate[c] = "evaluating"
    /\ Move(c, "asking")
    /\ UNCHANGED <<req, doomed, pending, meta, reply, mode, rules, saved, reset>>

\* request_confirmation up to the await of the answer.
Ask(c) ==
    /\ gate[c] = "asking"
    /\ Move(c, "waiting")
    /\ pending' = pending \cup {c}
    /\ meta' = meta \cup {c}
    /\ UNCHANGED <<req, doomed, reply, mode, rules, saved, reset>>

Answered(c) ==
    /\ gate[c] = "waiting"
    /\ reply[c] # "none"
    /\ Move(c, IF reply[c] = "yes" THEN "running" ELSE "refused")
    /\ UNCHANGED <<req, doomed, pending, meta, reply, mode, rules, saved, reset>>

\* Mutant of TimeOut: a question to the user has no limit.
NoTimeOut(c) == c \notin Calls /\ UNCHANGED gateVars

\* The minute is over before an answer came: the receiver is gone.
TimeOut(c) ==
    /\ gate[c] = "waiting"
    /\ reply[c] = "none"
    /\ Move(c, "late")
    /\ UNCHANGED <<req, doomed, pending, meta, reply, mode, rules, saved, reset>>

\* Mutants of GiveUp: the question is not withdrawn; what is not answered is
\* approved.
GiveUpKeeping(c) ==
    /\ gate[c] = "late"
    /\ Move(c, "refused")
    /\ UNCHANGED <<req, doomed, pending, meta, reply, mode, rules, saved, reset>>

GiveUpApproving(c) ==
    /\ gate[c] = "late"
    /\ pending' = pending \ {c}
    /\ meta' = meta \ {c}
    /\ Move(c, "running")
    /\ UNCHANGED <<req, doomed, reply, mode, rules, saved, reset>>

\* The question is withdrawn and the call refused, whatever was answered since.
GiveUp(c) ==
    /\ gate[c] = "late"
    /\ pending' = pending \ {c}
    /\ meta' = meta \ {c}
    /\ Move(c, "refused")
    /\ UNCHANGED <<req, doomed, reply, mode, rules, saved, reset>>

Execute(c) ==
    /\ gate[c] = "running"
    /\ Move(c, "ran")
    /\ UNCHANGED <<req, doomed, pending, meta, reply, mode, rules, saved, reset>>

\* The future of an aborted call is dropped at an await: nothing is withdrawn.
Drop(c) ==
    /\ c \in doomed
    /\ gate[c] \in {"evaluating", "asking", "waiting", "running"}
    /\ Move(c, "dropped")
    /\ UNCHANGED <<req, doomed, pending, meta, reply, mode, rules, saved, reset>>

----------------------------------------------------------------------------
(* The main loop.                                                          *)

Saving(answer, q) ==
    CASE answer.approved /\ answer.allow  -> [saved EXCEPT !.allow = @ \cup {Entry(q)}]
      [] ~answer.approved /\ answer.deny -> [saved EXCEPT !.deny = @ \cup {Entry(q)}]
      [] OTHER                           -> saved

\* Mutant of HandleConfirmation: whoever waits takes the answer.
ResolveAny(answer) ==
    /\ UNCHANGED <<req, gate, doomed, mode, rules, saved, reset>>
    /\ pending' = pending \ {answer.call}
    /\ meta' = meta \ {answer.call}
    /\ reply' = [c \in Calls |-> IF c \in pending THEN IF answer.approved THEN "yes" ELSE "no" ELSE reply[c]]

\* An answer reaches the question it names, if that still waits; then it is
\* saved too if the user asked for that.
HandleConfirmation(answer) ==
    LET c == answer.call
        saves == c \in pending \cap meta /\ IF answer.approved THEN answer.allow ELSE answer.deny
    IN  /\ meta' = meta \ {c}
        /\ pending' = pending \ {c}
        /\ reply' = IF c \in pending /\ gate[c] = "waiting"
                    THEN [reply EXCEPT ![c] = IF answer.approved THEN "yes" ELSE "no"]
                    ELSE reply
        /\ saved' = IF saves THEN Saving(answer, req[c]) ELSE saved
        /\ UNCHANGED <<req, gate, doomed, mode, rules, reset>>

\* Mutant of HandleSetPermissionMode: acknowledged, not set.
SetModeAckOnly(m) ==
    /\ reset' = FALSE
    /\ UNCHANGED <<req, gate, doomed, pending, meta, reply, mode, rules, saved>>

HandleSetPermissionMode(m) ==
    /\ mode' = m
    /\ reset' = FALSE
    /\ UNCHANGED <<req, gate, doomed, pending, meta, reply, rules, saved>>

\* config.toml is written at any time, by this daemon (a rule, a refreshed
\* token), a login or an editor, here outside [permissions].  The watcher reads
\* it again; it tells the main loop, which sets the mode of every session.
ReloadRules ==
    /\ rules' = saved
    /\ UNCHANGED <<req, gate, doomed, pending, meta, reply, mode, saved, reset>>

ResetMode ==
    /\ mode' = ConfigMode
    /\ reset' = TRUE
    /\ UNCHANGED <<req, gate, doomed, pending, meta, reply, rules, saved>>

Reload == ReloadRules \/ ResetMode

GateStep(c) == Evaluated(c) \/ NotEvaluated(c) \/ Ask(c) \/ Answered(c) \/ TimeOut(c) \/ GiveUp(c) \/ Execute(c)

\* While a call waits for the user, the daemon can deliver the answer, and what
\* it keeps about a question it keeps in both maps (PermissionContext).
PendingServed ==
    /\ pending = meta
    /\ \A c \in Calls : gate[c] = "waiting" => (c \in pending <=> reply[c] = "none")
    /\ \A c \in pending : gate[c] \in {"waiting", "late", "dropped"}
=============================================================================
