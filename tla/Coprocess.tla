------------------------------ MODULE Coprocess ------------------------------
(***************************************************************************)
(* The client's use of its one bash: commands of the user and of leases,   *)
(* which the event loop follows without waiting, the blocking questions    *)
(* after each (pwd, git, env), the completion engine with its background   *)
(* initialisation, Ctrl-C and the timeouts (codiv/src/shell/               *)
(* bash_coprocess.rs, completion_engine.rs, ui/terminal/event_loop.rs,     *)
(* keys/input_keys.rs, codiv-common/src/shell/mod.rs).                     *)
(*                                                                         *)
(* Each reader takes what is in the channel up to its own sentinel, so     *)
(* what it reads may hold the output of lines nobody waits for any more.   *)
(***************************************************************************)
EXTENDS BashPty

CONSTANT MaxKept  \* MAX_ACCUMULATED_BYTES, as a number of texts

ASSUME KeptAssumption == MaxKept \in Nat \ {0}

VARIABLES pending,    \* TerminalState::cmd.pending_command: its line
          acc,        \* PendingCommand::accumulated
          cut,        \* the front of that was dropped
          quiet,      \* PendingCommand::last_activity lies in the past
          plan,       \* blocking steps left before the event loop goes on
          waiting,    \* the line whose sentinel the current step waits for
          buf,        \* what that step has read
          engine,     \* CompletionEngine::state and the line it waits for
          cwd,        \* TerminalState::shell.cwd
          candidates, \* what the last completion offered: the lines it came from
          report,     \* the last command reported and the output it was reported with
          ops         \* operations so far

clientVars == <<pending, acc, cut, quiet, plan, waiting, buf, engine, cwd, candidates, report, ops>>
vars == <<bashVars, clientVars>>

Garbled == -1

Engine(state, line) == [state |-> state, line |-> line.id]
InProgress == engine.state \in {"Sourcing", "DefiningHelper"}

Ended(tokens, id) == \E i \in DOMAIN tokens : tokens[i].of = id /\ tokens[i].what = "end"

\* check_complete and clean_output take out the line of the own sentinel only.
Output(tokens, id) == {i \in DOMAIN tokens : ~ (tokens[i].of = id /\ tokens[i].what = "end")}

Free == pending = NoLine /\ plan = <<>>

\* The event loop starts with the initialisation.
Init ==
    /\ PtyInit
    /\ sent       = 1
    /\ input      = <<[id |-> 1, kind |-> "source"]>>
    /\ pending    = NoLine
    /\ acc        = <<>>
    /\ cut        = FALSE
    /\ quiet      = FALSE
    /\ plan       = <<>>
    /\ waiting    = NoLine
    /\ buf        = <<>>
    /\ engine     = [state |-> "Sourcing", line |-> 1]
    /\ cwd        = 0
    /\ candidates = {}
    /\ report     = [of |-> 0, tokens |-> <<>>, cut |-> FALSE]
    /\ ops        = 0

BashKeeps == UNCHANGED <<alive, current, printed, dir, helper, jobs>>

Operates == ops < MaxOps /\ ops' = ops + 1

\* Nobody reads for the initialisation while something else goes on.
Overrun == IF InProgress THEN loose \cup {engine.line} ELSE loose

----------------------------------------------------------------------------
(* Commands.                                                               *)

\* The user submits a command, or the active lease has one, and the line is
\* written; with bash gone that fails and there is a notice.
StartCommand ==
    /\ Operates /\ Free
    /\ \E kind \in {"user", "cd"} :
         LET line == Lines(<<kind>>)[1] IN
         /\ WriteLines(<<line>>)
         /\ pending' = IF alive THEN line ELSE NoLine
    /\ acc' = <<>> /\ cut' = FALSE /\ quiet' = FALSE
    /\ loose' = IF alive THEN Overrun ELSE loose
    /\ BashKeeps
    /\ UNCHANGED <<out, events, upset, plan, waiting, buf, engine, cwd, candidates, report>>

\* Mutant of AfterCommand: after a change of directory the environment is enough.
EnvHoldsPwd(line) == IF line.kind = "cd" THEN <<"git", "env">> ELSE <<"cwd", "git">>

AfterCommand(line) == <<"cwd", "git">> \o (IF line.kind = "cd" THEN <<"env">> ELSE <<>>)

\* A text that was read asks where the cursor is.  The client writes the answer
\* to the terminal, and the program that asked may leave it to bash.
\* (process_pty_bytes; for a command of a lease it never answers.)
Reply ==
    /\ Event
    /\ alive /\ \E i \in DOMAIN out : out[i].what = "text"
    /\ input' = Append(input, Typed)

\* What the terminal has is read, what is too much is dropped from the front and,
\* once the sentinel is there, the command is over: the client asks for the
\* directory, the state of git and, after a command that may change it, the
\* environment.
ReadCommandOutput ==
    /\ pending # NoLine /\ out # <<>>
    /\ out' = <<>>
    /\ quiet' = FALSE
    /\ Reply \/ UNCHANGED <<input, events, upset>>
    /\ LET all == acc \o out IN
       \E n \in 0 .. Len(all) - 1 :
         LET kept == SubSeq(all, n + 1, Len(all)) IN
         /\ Len(kept) <= MaxKept
         /\ IF Ended(kept, pending.id)
            THEN /\ report' = [of |-> pending.id, tokens |-> kept, cut |-> cut \/ n > 0]
                 /\ plan' = AfterCommand(pending)
                 /\ pending' = NoLine /\ acc' = <<>> /\ cut' = FALSE
            ELSE acc' = kept /\ cut' = (cut \/ n > 0) /\ UNCHANGED <<report, plan, pending>>
    /\ BashKeeps
    /\ UNCHANGED <<sent, loose, waiting, buf, engine, cwd, candidates, ops>>

\* The command is interrupted and forgotten; what it prints within 100 ms is
\* thrown away.
Abandon ==
    /\ Interrupt
    /\ \E n \in 0 .. Len(out) : out' = SubSeq(out, n + 1, Len(out))
    /\ loose' = loose \cup {pending.id}
    /\ pending' = NoLine
    /\ acc' = <<>> /\ cut' = FALSE /\ quiet' = FALSE
    /\ UNCHANGED <<alive, printed, dir, helper, jobs, sent, plan, waiting, buf, engine, cwd, candidates, report, ops>>

CtrlCRunning ==
    /\ Event
    /\ pending # NoLine
    /\ Abandon

\* The clock runs.
TimePasses ==
    /\ pending # NoLine /\ ~ quiet
    /\ quiet' = TRUE
    /\ UNCHANGED <<bashVars, pending, acc, cut, plan, waiting, buf, engine, cwd, candidates, report, ops>>

\* No output was read and no key typed for five minutes.
ActivityTimeout ==
    /\ pending # NoLine /\ quiet
    /\ upset' = TRUE
    /\ Abandon
    /\ UNCHANGED events

CtrlCAtPrompt ==
    /\ Event
    /\ Free
    /\ Interrupt
    /\ UNCHANGED <<alive, printed, dir, helper, jobs, out, sent, loose, clientVars>>

\* A key goes to the running command, which reads it or leaves it to bash.
ForwardKey ==
    /\ pending # NoLine
    /\ quiet' = FALSE
    /\ \/ UNCHANGED <<input, events, upset>>
       \/ Event /\ alive /\ input' = Append(input, Typed)
    /\ BashKeeps
    /\ UNCHANGED <<out, sent, loose, pending, acc, cut, plan, waiting, buf, engine, cwd, candidates, report, ops>>

----------------------------------------------------------------------------
(* Blocking steps: ShellSession::execute.                                  *)

\* The helper's definition is written, nothing is waited for.
WriteHelper ==
    /\ plan # <<>> /\ Head(plan) = "helper"
    /\ WriteLines(Lines(<<"helper">>))
    /\ plan' = Tail(plan)
    /\ BashKeeps
    /\ UNCHANGED <<out, events, loose, upset, pending, acc, cut, quiet, waiting, buf, engine, cwd, candidates, report, ops>>

\* Mutant of Execute: the state of git is asked for without waiting.
ExecuteNoWait ==
    /\ plan # <<>> /\ waiting = NoLine /\ Head(plan) \notin {"helper", "await"}
    /\ WriteLines(Lines(<<Head(plan)>>))
    /\ IF Head(plan) = "git"
       THEN plan' = Tail(plan) /\ UNCHANGED waiting
       ELSE waiting' = Lines(<<Head(plan)>>)[1] /\ UNCHANGED plan
    /\ buf' = <<>>
    /\ BashKeeps
    /\ UNCHANGED <<out, events, loose, upset, pending, acc, cut, quiet, engine, cwd, candidates, report, ops>>

Execute ==
    /\ plan # <<>> /\ waiting = NoLine /\ Head(plan) \notin {"helper", "await"}
    /\ WriteLines(Lines(<<Head(plan)>>))
    /\ waiting' = Lines(<<Head(plan)>>)[1]
    /\ buf' = <<>>
    /\ BashKeeps
    /\ UNCHANGED <<out, events, loose, upset, pending, acc, cut, quiet, plan, engine, cwd, candidates, report, ops>>

\* The directory is whatever was read besides the sentinel.
CwdOf(tokens, id) ==
    IF \E i \in Output(tokens, id) : Output(tokens, id) = {i} /\ tokens[i].of = id
    THEN tokens[CHOOSE i \in Output(tokens, id) : TRUE].val ELSE Garbled

\* The step returns; only the completion asks whether the sentinel came.
Return(tokens, done) ==
    /\ plan' = Tail(plan)
    /\ waiting' = NoLine
    /\ buf' = <<>>
    /\ cwd' = IF waiting.kind = "cwd" THEN CwdOf(tokens, waiting.id) ELSE cwd
    /\ candidates' = IF waiting.kind # "query" THEN candidates
                     ELSE IF done THEN {tokens[i].of : i \in Output(tokens, waiting.id)} ELSE {}
    /\ engine' = IF waiting.kind = "verify" THEN Engine("Ready", NoLine) ELSE engine

\* A chunk that holds the sentinel may hold more, which is dropped.
ReadChunk ==
    /\ waiting # NoLine /\ out # <<>>
    /\ \E n \in 1 .. Len(out) :
         LET tokens == buf \o SubSeq(out, 1, n) IN
         /\ out' = SubSeq(out, n + 1, Len(out))
         /\ IF Ended(tokens, waiting.id) THEN Return(tokens, TRUE)
            ELSE buf' = tokens /\ UNCHANGED <<plan, waiting, cwd, candidates, engine>>
    /\ BashKeeps
    /\ UNCHANGED <<input, sent, events, loose, upset, pending, acc, cut, quiet, report, ops>>

\* Mutant of ExecuteTimeout: none.
NoExecuteTimeout == waiting = Typed /\ UNCHANGED vars

\* 2, 5 or 30 s are over, or bash is gone.
ExecuteTimeout ==
    /\ waiting # NoLine
    /\ Return(buf, FALSE)
    /\ loose' = loose \cup {waiting.id}
    /\ upset' = TRUE
    /\ BashKeeps
    /\ UNCHANGED <<input, out, sent, events, pending, acc, cut, quiet, report, ops>>

----------------------------------------------------------------------------
(* The completion engine.                                                  *)

\* Mutant of Polls: the initialisation is polled while a command runs.
PollsAlways == plan # <<>> => Head(plan) = "await"

\* The event loop polls when no command runs; so does Tab while it waits.
Polls == pending = NoLine /\ (plan # <<>> => Head(plan) = "await")

\* poll_init: what is there is read; after the first sentinel the helper is
\* defined and looked up, after the second the engine is ready, whatever the
\* exit codes are.
PollInit ==
    /\ InProgress /\ Polls /\ out # <<>>
    /\ out' = <<>>
    /\ IF ~ Ended(out, engine.line) THEN UNCHANGED <<engine, input, sent>>
       ELSE IF engine.state = "DefiningHelper" THEN engine' = Engine("Ready", NoLine) /\ UNCHANGED <<input, sent>>
       ELSE /\ WriteLines(Lines(<<"helper", "verify">>))
            /\ engine' = IF alive THEN Engine("DefiningHelper", Lines(<<"helper", "verify">>)[2])
                         ELSE Engine("NotStarted", NoLine)
    /\ BashKeeps
    /\ UNCHANGED <<events, loose, upset, pending, acc, cut, quiet, plan, waiting, buf, cwd, candidates, report, ops>>

InitSteps == <<"source", "helper", "verify">>

\* Mutant of PressTab: an initialisation in progress is not waited for.
TabAtOnce ==
    /\ Operates /\ Free
    /\ plan' = IF engine.state = "NotStarted" THEN InitSteps \o <<"query">> ELSE <<"query">>
    /\ UNCHANGED <<bashVars, pending, acc, cut, quiet, waiting, buf, engine, cwd, candidates, report>>

PressTab ==
    /\ Operates /\ Free
    /\ plan' = CASE engine.state = "Ready"      -> <<"query">>
                 [] engine.state = "NotStarted" -> InitSteps \o <<"query">>
                 [] OTHER                       -> <<"await", "query">>
    /\ UNCHANGED <<bashVars, pending, acc, cut, quiet, waiting, buf, engine, cwd, candidates, report>>

\* finish_init_blocking polls until the engine is ready or 10 s are over; then
\* it starts all over.
AwaitOver ==
    /\ plan # <<>> /\ Head(plan) = "await"
    /\ plan' = IF engine.state = "Ready" THEN Tail(plan) ELSE InitSteps \o Tail(plan)
    /\ loose' = Overrun
    /\ BashKeeps
    /\ UNCHANGED <<input, out, sent, events, upset, pending, acc, cut, quiet, waiting, buf, engine, cwd, candidates, report, ops>>

\* /reset: a new engine starts over in the same bash.
ResetEngine ==
    /\ Operates /\ Free
    /\ WriteLines(Lines(<<"source">>))
    /\ engine' = IF alive THEN Engine("Sourcing", Lines(<<"source">>)[1]) ELSE Engine("NotStarted", NoLine)
    /\ loose' = Overrun
    /\ BashKeeps
    /\ UNCHANGED <<out, events, upset, pending, acc, cut, quiet, plan, waiting, buf, cwd, candidates, report>>

----------------------------------------------------------------------------
ClientStep ==
    \/ StartCommand \/ ReadCommandOutput \/ CtrlCRunning \/ TimePasses \/ ActivityTimeout
    \/ CtrlCAtPrompt \/ ForwardKey \/ WriteHelper \/ Execute \/ ReadChunk
    \/ ExecuteTimeout \/ PollInit \/ PressTab \/ AwaitOver \/ ResetEngine

Next == ClientStep \/ (BashStep /\ UNCHANGED clientVars)

\* The client's thread runs, time passes and its timers fire; neither bash nor
\* the program it runs has to end or to fall quiet.
Fairness ==
    /\ WF_vars(TimePasses)
    /\ WF_vars(ActivityTimeout)
    /\ WF_vars(WriteHelper \/ Execute \/ AwaitOver)
    /\ WF_vars(ExecuteTimeout)

Spec == Init /\ [][Next]_vars /\ Fairness

----------------------------------------------------------------------------

\* What a command is reported with besides its own output comes from a line
\* nobody waits for any more, from a background job or from what was typed ahead:
\* every question the client asks is read to its end (event_loop.rs:428).
ForeignOutputIsLoose ==
    \A i \in DOMAIN report.tokens : report.tokens[i].of \in loose \cup {report.of}

\* The texts of a line among some tokens.
Said(tokens, id) == {k \in 1 .. MaxPrints : \E i \in DOMAIN tokens : tokens[i] = [of |-> id, what |-> "text", val |-> k]}

\* n texts are there, or the last of them where some were dropped.
Whole(said, n, dropped) ==
    /\ dropped \/ said = 1 .. n
    /\ \A k \in said : k <= n /\ k .. n \subseteq said

\* And all of its own output is there, or its last part if it is too long: no
\* other reader of the channel takes part of it (event_loop.rs, poll_init only
\* when no command is pending; io.rs:118-121).
ReportIsComplete ==
    \A i \in DOMAIN report.tokens :
        report.tokens[i].of = report.of /\ report.tokens[i].what = "end" =>
            Whole(Said(report.tokens, report.of), report.tokens[i].val, report.cut)

\* Unless something was interrupted, typed ahead, timed out or left in the
\* background, or the client answered where the cursor is to a program that did
\* not read the answer, the directory on the prompt and in the report to the
\* daemon is the one bash is in.
CwdIsBashs == Free /\ ~ upset => cwd = dir

\* Unless so, a completion finds its helper defined, whether the initialisation
\* was overrun by a command, waited for or started over (complete).
HelperIsThere == current.kind = "query" /\ ~ upset => helper

\* Unless so, what it offers comes from its own line, though commands that
\* overran the initialisation may have left sentinels to read.
CandidatesAreOwn == plan = <<>> /\ ~ upset => Cardinality(candidates) <= 1 /\ candidates \cap loose = {}

\* The running command printed or was typed to.
Active == pending # NoLine /\ ~ quiet

\* The event loop never hangs in a question to bash, and a command that bash
\* does not end is given up: the user can go on, again and again, unless there
\* is no end to what the command prints or is typed.
FreeAgain == <>[] ~ Active => []<> Free
=============================================================================
