--------------------------- MODULE CoprocessProofs ---------------------------
(***************************************************************************)
(* What the client reads from its one bash, for any number of commands,    *)
(* completions, resets, timeouts, interrupts, keys, jobs and deaths.       *)
(*                                                                         *)
(* In every state: what is read comes from the lines that are waited for   *)
(* and from loose ones, a line prints nothing behind its sentinel, and a   *)
(* command's sentinel says what it has printed.  While nothing is          *)
(* interrupted, typed ahead, replied to bash, timed out or left behind:    *)
(* what is waited for is the last line written, so that with its sentinel  *)
(* read bash is at rest and the next question starts from an empty         *)
(* terminal.                                                               *)
(***************************************************************************)
EXTENDS Coprocess, TLAPS, SequenceTheorems, FiniteSetTheorems

\* Lines and what they print.
Kinds == {"none", "user", "cd", "cwd", "git", "env", "source", "helper", "verify", "query", "typed", "spoiled"}
Line  == [id : Nat, kind : Kinds]
Token == [of : Nat, what : {"text", "end"}, val : Int]

\* What is left to do in one wait of the event loop.
Plans == {<<>>, <<"cwd", "git">>, <<"cwd", "git", "env">>, <<"git">>, <<"git", "env">>, <<"env">>,
          <<"query">>, <<"verify", "query">>, <<"helper", "verify", "query">>,
          <<"source", "helper", "verify", "query">>, <<"await", "query">>}

\* The lines some tokens come from, and the lines in a sequence of lines.
Of(tokens) == {tokens[i].of : i \in DOMAIN tokens}
Ids(lines) == {lines[i].id : i \in DOMAIN lines}

\* The line written as the n-th from now.
New(n, kind) == [id |-> sent + n, kind |-> kind]

\* The sets the variables are in.
Types ==
    /\ alive \in BOOLEAN /\ printed \in 0 .. MaxPrints /\ helper \in BOOLEAN /\ upset \in BOOLEAN /\ cut \in BOOLEAN
    /\ sent \in Nat /\ dir \in Nat
    /\ current \in Line /\ pending \in Line /\ waiting \in Line /\ input \in Seq(Line)
    /\ out \in Seq(Token) /\ acc \in Seq(Token) /\ buf \in Seq(Token)
    /\ plan \in Plans
    /\ engine \in [state : {"NotStarted", "Sourcing", "DefiningHelper", "Ready"}, line : Nat]

\* No line has the number 0, and no number is ahead of the count.
Numbers ==
    /\ current.id = 0 => current \in {NoLine, Typed}
    /\ \A i \in DOMAIN input : input[i].id = 0 => input[i] = Typed
    /\ pending.id = 0 => pending = NoLine
    /\ waiting.id = 0 => waiting = NoLine
    /\ InProgress <=> engine.line # 0
    /\ current.id <= sent /\ pending.id <= sent /\ waiting.id <= sent /\ engine.line <= sent
    /\ \A i \in DOMAIN input : input[i].id <= sent
    /\ 0 \in loose /\ loose \subseteq 0 .. sent /\ jobs \subseteq loose

\* Who waits for what.
Control ==
    /\ pending.kind \in {"none", "user", "cd"}
    /\ pending # NoLine => plan = <<>>
    /\ pending = NoLine => acc = <<>> /\ ~ cut
    /\ waiting # NoLine => plan # <<>> /\ waiting.kind = Head(plan)
    /\ waiting.kind \notin {"helper", "await"}
    /\ waiting = NoLine => buf = <<>>
    /\ InProgress /\ engine.line \notin loose => pending = NoLine /\ (plan # <<>> => Head(plan) = "await")
    /\ ~ alive => input = <<>>

\* The type invariant.
TypeInv == Types /\ Numbers /\ Control

\* All but the age of the last activity.
Rest == <<bashVars, pending, acc, cut, plan, waiting, buf, engine, cwd, candidates, report, ops>>

\* The steps, but for the clock's and a key that the program reads.
Moves ==
    \/ StartCommand \/ ReadCommandOutput \/ CtrlCRunning \/ ActivityTimeout \/ CtrlCAtPrompt
    \/ (ForwardKey /\ input' # input)
    \/ WriteHelper \/ Execute \/ ReadChunk \/ ExecuteTimeout \/ PollInit \/ PressTab \/ AwaitOver \/ ResetEngine
    \/ (BashStep /\ UNCHANGED clientVars)

\* What is kept of the output of the command.
Kept(n) == SubSeq(acc \o out, n + 1, Len(acc \o out))

----------------------------------------------------------------------------
\* Short sequences, taken apart and put together.
LEMMA Tails ==
    ASSUME NEW a, NEW b, NEW c, NEW d
    PROVE  /\ Tail(<<a>>) = <<>> /\ Head(<<a>>) = a
           /\ Tail(<<a, b>>) = <<b>> /\ Head(<<a, b>>) = a
           /\ Tail(<<a, b, c>>) = <<b, c>> /\ Head(<<a, b, c>>) = a
           /\ Tail(<<a, b, c, d>>) = <<b, c, d>> /\ Head(<<a, b, c, d>>) = a
OBVIOUS

\* Two elements and a third.
LEMMA TwoAndOne ==
    ASSUME NEW a, NEW b, NEW c
    PROVE  <<a, b>> \o <<c>> = <<a, b, c>>
<1> DEFINE S == {a, b, c}
           s == <<a, b>> \o <<c>>
           t == <<a, b, c>>
<1>1. s \in Seq(S) /\ t \in Seq(S) /\ Len(s) = 3 /\ Len(t) = 3
  OBVIOUS
<1>2. s[1] = a /\ s[2] = b /\ s[3] = c
  OBVIOUS
<1>3. t[1] = a /\ t[2] = b /\ t[3] = c
  OBVIOUS
<1> HIDE DEF s, t
<1>4. \A i \in 1 .. 3 : i = 1 \/ i = 2 \/ i = 3
  OBVIOUS
<1>5. s = t
  BY <1>1, <1>2, <1>3, <1>4, SeqEqual
<1> QED
  BY <1>5 DEF s, t

\* Three and a fourth.
LEMMA ThreeAndOne ==
    ASSUME NEW a, NEW b, NEW c, NEW d
    PROVE  <<a, b, c>> \o <<d>> = <<a, b, c, d>>
<1> DEFINE S == {a, b, c, d}
           s == <<a, b, c>> \o <<d>>
           t == <<a, b, c, d>>
<1>1. s \in Seq(S) /\ t \in Seq(S) /\ Len(s) = 4 /\ Len(t) = 4
  OBVIOUS
<1>2. s[1] = a /\ s[2] = b /\ s[3] = c /\ s[4] = d
  OBVIOUS
<1>3. t[1] = a /\ t[2] = b /\ t[3] = c /\ t[4] = d
  OBVIOUS
<1> HIDE DEF s, t
<1>4. \A i \in 1 .. 4 : i = 1 \/ i = 2 \/ i = 3 \/ i = 4
  OBVIOUS
<1>5. s = t
  BY <1>1, <1>2, <1>3, <1>4, SeqEqual
<1> QED
  BY <1>5 DEF s, t

\* What is left of a plan is a plan.
LEMMA PlanFacts ==
    ASSUME NEW p \in Plans, p # <<>>
    PROVE  /\ Tail(p) \in Plans
           /\ Head(p) \in {"cwd", "git", "env", "query", "verify", "helper", "source", "await"}
           /\ Head(p) = "await" => p = <<"await", "query">> /\ Tail(p) = <<"query">>
           /\ Tail(p) # <<>> => Head(Tail(p)) \notin {"await", "cwd", "source"}
<1>1. CASE p = <<"cwd", "git">>
  BY <1>1, Tails DEF Plans
<1>2. CASE p = <<"cwd", "git", "env">>
  BY <1>2, Tails DEF Plans
<1>3. CASE p = <<"git">> \/ p = <<"env">> \/ p = <<"query">>
  BY <1>3, Tails DEF Plans
<1>4. CASE p = <<"git", "env">>
  BY <1>4, Tails DEF Plans
<1>5. CASE p = <<"verify", "query">>
  BY <1>5, Tails DEF Plans
<1>6. CASE p = <<"helper", "verify", "query">>
  BY <1>6, Tails DEF Plans
<1>7. CASE p = <<"source", "helper", "verify", "query">>
  BY <1>7, Tails DEF Plans
<1>8. CASE p = <<"await", "query">>
  BY <1>8, Tails DEF Plans
<1> QED
  BY <1>1, <1>2, <1>3, <1>4, <1>5, <1>6, <1>7, <1>8 DEF Plans

\* So are the plans the client makes.
LEMMA PlansMade ==
    /\ <<>> \in Plans /\ <<"query">> \in Plans /\ <<"await", "query">> \in Plans
    /\ Head(<<"await", "query">>) = "await" /\ Head(<<"query">>) = "query"
    /\ InitSteps \o <<"query">> = <<"source", "helper", "verify", "query">>
    /\ InitSteps \o <<"query">> \in Plans
    /\ \A line : AfterCommand(line) \in {<<"cwd", "git">>, <<"cwd", "git", "env">>} /\ AfterCommand(line) \in Plans
<1>1. InitSteps \o <<"query">> = <<"source", "helper", "verify", "query">>
  BY ThreeAndOne DEF InitSteps
<1>2. <<"cwd", "git">> \o <<"env">> = <<"cwd", "git", "env">>
  BY TwoAndOne
<1>3. <<"cwd", "git">> \o <<>> = <<"cwd", "git">>
  OBVIOUS
<1>4. \A line : AfterCommand(line) \in {<<"cwd", "git">>, <<"cwd", "git", "env">>}
  BY <1>2, <1>3 DEF AfterCommand
<1>5. Head(<<"await", "query">>) = "await" /\ Head(<<"query">>) = "query"
  BY Tails
<1> QED
  BY <1>1, <1>4, <1>5 DEF Plans

\* Two lines at once are two lines, one behind the other.
LEMMA TwoBehind ==
    ASSUME NEW s \in Seq(Line), NEW h \in Line, NEW v \in Line
    PROVE  s \o <<h, v>> = Append(Append(s, h), v)
<1> DEFINE x == s \o <<h, v>>
           y == Append(Append(s, h), v)
<1>1. x \in Seq(Line) /\ y \in Seq(Line) /\ Len(x) = Len(s) + 2 /\ Len(y) = Len(s) + 2
  OBVIOUS
<1>2. ASSUME NEW i \in 1 .. Len(s) + 2 PROVE x[i] = y[i]
  OBVIOUS
<1> HIDE DEF x, y
<1>3. x = y
  BY <1>1, <1>2, SeqEqual
<1> QED
  BY <1>3 DEF x, y

\* A new line is one.
LEMMA Newed ==
    ASSUME NEW n \in Nat, NEW kind \in Kinds, sent \in Nat
    PROVE  New(n, kind) \in Line /\ New(n, kind).id = sent + n /\ New(n, kind).kind = kind
BY DEF New, Line

\* One line is written behind the others, under the next number.
LEMMA LinesOne ==
    ASSUME NEW kind \in Kinds, sent \in Nat, input \in Seq(Line)
    PROVE  /\ Lines(<<kind>>)[1] = New(1, kind)
           /\ Lines(<<kind>>) = <<New(1, kind)>>
           /\ Len(<<New(1, kind)>>) = 1
           /\ input \o <<New(1, kind)>> = Append(input, New(1, kind))
           /\ New(1, kind) \in Line /\ New(1, kind).id = sent + 1 /\ New(1, kind).kind = kind
<1>1. Lines(<<kind>>) = <<[id |-> sent + 1, kind |-> kind]>>
  BY DEF Lines
<1>2. New(1, kind) \in Line /\ New(1, kind).id = sent + 1 /\ New(1, kind).kind = kind
  BY Newed
<1>3. Lines(<<kind>>) = <<New(1, kind)>>
  BY <1>1 DEF New
<1>4. input \o <<New(1, kind)>> = Append(input, New(1, kind))
  BY <1>2, AppendIsConcat
<1> QED
  BY <1>2, <1>3, <1>4

\* So are the two of the second half of the initialisation.
LEMMA LinesTwo ==
    ASSUME sent \in Nat, input \in Seq(Line)
    PROVE  /\ Lines(<<"helper", "verify">>)[2] = New(2, "verify")
           /\ Len(Lines(<<"helper", "verify">>)) = 2
           /\ input \o Lines(<<"helper", "verify">>) = Append(Append(input, New(1, "helper")), New(2, "verify"))
           /\ New(1, "helper") \in Line /\ New(1, "helper").id = sent + 1 /\ New(1, "helper").kind = "helper"
           /\ New(2, "verify") \in Line /\ New(2, "verify").id = sent + 2 /\ New(2, "verify").kind = "verify"
<1> DEFINE h == New(1, "helper")
           v == New(2, "verify")
<1>1. Lines(<<"helper", "verify">>) = <<[id |-> sent + 1, kind |-> "helper"], [id |-> sent + 2, kind |-> "verify"]>>
  BY DEF Lines
<1>2. h \in Line /\ h.id = sent + 1 /\ h.kind = "helper"
  BY Newed DEF Kinds
<1>3. v \in Line /\ v.id = sent + 2 /\ v.kind = "verify"
  BY Newed DEF Kinds
<1>4. Lines(<<"helper", "verify">>) = <<h, v>>
  BY <1>1 DEF New
<1>a. Lines(<<"helper", "verify">>)[2] = v /\ Len(Lines(<<"helper", "verify">>)) = 2
  BY <1>4
<1> HIDE DEF h, v
<1>5. input \o <<h, v>> = Append(Append(input, h), v)
  BY <1>2, <1>3, TwoBehind
<1> QED
  BY <1>2, <1>3, <1>4, <1>5, <1>a DEF h, v

----------------------------------------------------------------------------
(* The types of the state.                                                 *)

\* The initialisation is the first line.
LEMMA InitTypes == Init => TypeInv
<1> SUFFICES ASSUME Init PROVE TypeInv
  OBVIOUS
<1> USE DEF Init, PtyInit, NoLine, Typed
<1>1. [id |-> 1, kind |-> "source"] \in Line /\ NoLine \in Line
  BY DEF Line, Kinds
<1>2. <<>> \in Seq(Token) /\ <<[id |-> 1, kind |-> "source"]>> \in Seq(Line)
  BY <1>1
<1>a. printed = 0 /\ 0 \in 0 .. MaxPrints /\ loose = {0}
  BY PtyAssumption
<1>b. current \in Line /\ pending \in Line /\ waiting \in Line /\ input \in Seq(Line) /\ plan \in Plans
  BY <1>1, <1>2, PlansMade
<1>c. engine \in [state : {"NotStarted", "Sourcing", "DefiningHelper", "Ready"}, line : Nat]
  OBVIOUS
<1>d. out \in Seq(Token) /\ acc \in Seq(Token) /\ buf \in Seq(Token)
  BY <1>2
<1>3. Types
  BY <1>a, <1>b, <1>c, <1>d DEF Types
<1>4. Numbers
  BY <1>1 DEF Numbers, InProgress
<1>5. Control
  BY DEF Control, InProgress
<1> QED
  BY <1>3, <1>4, <1>5 DEF TypeInv

----------------------------------------------------------------------------
(* What the actions that write do.                                         *)

\* A command is a line of its own.
LEMMA StartEffect ==
    ASSUME Types, StartCommand
    PROVE  \E kind \in {"user", "cd"} :
              /\ input' = (IF alive THEN Append(input, New(1, kind)) ELSE input) /\ sent' = sent + 1
              /\ pending' = (IF alive THEN New(1, kind) ELSE NoLine)
<1>1. PICK kind \in {"user", "cd"} : /\ WriteLines(<<New(1, kind)>>)
                                     /\ pending' = IF alive THEN New(1, kind) ELSE NoLine
  BY LinesOne DEF StartCommand, Kinds, Types
<1> QED
  BY <1>1, LinesOne DEF WriteLines, Kinds, Types

\* So is the definition of the helper,
LEMMA WriteHelperEffect ==
    ASSUME Types, WriteHelper
    PROVE  /\ input' = (IF alive THEN Append(input, New(1, "helper")) ELSE input)
           /\ sent' = sent + 1 /\ plan' = Tail(plan) /\ plan # <<>> /\ Head(plan) = "helper"
<1>1. "helper" \in Kinds
  BY DEF Kinds
<1>2. WriteLines(<<New(1, "helper")>>) /\ plan' = Tail(plan) /\ plan # <<>> /\ Head(plan) = "helper"
  BY <1>1, LinesOne DEF WriteHelper, Types
<1> QED
  BY <1>1, <1>2, LinesOne DEF WriteLines, Types

\* each question,
LEMMA ExecuteEffect ==
    ASSUME Types, Execute
    PROVE  /\ plan # <<>> /\ waiting = NoLine /\ Head(plan) \in {"cwd", "git", "env", "query", "verify", "source"}
           /\ input' = (IF alive THEN Append(input, New(1, Head(plan))) ELSE input)
           /\ sent' = sent + 1 /\ waiting' = New(1, Head(plan)) /\ buf' = <<>>
<1>1. plan # <<>> /\ waiting = NoLine /\ Head(plan) \in {"cwd", "git", "env", "query", "verify", "source"}
  BY PlanFacts DEF Execute, Types
<1>2. Head(plan) \in Kinds
  BY <1>1 DEF Kinds
<1>3. WriteLines(<<New(1, Head(plan))>>) /\ waiting' = New(1, Head(plan)) /\ buf' = <<>>
  BY <1>2, LinesOne DEF Execute, Types
<1> QED
  BY <1>1, <1>2, <1>3, LinesOne DEF WriteLines, Types

\* and the beginning of the initialisation.
LEMMA ResetEffect ==
    ASSUME Types, ResetEngine
    PROVE  /\ input' = (IF alive THEN Append(input, New(1, "source")) ELSE input) /\ sent' = sent + 1
           /\ engine' = IF alive THEN Engine("Sourcing", New(1, "source")) ELSE Engine("NotStarted", NoLine)
BY LinesOne DEF ResetEngine, WriteLines, Kinds, Types

\* Its second half is two lines.
LEMMA PollEffect ==
    ASSUME Types, PollInit
    PROVE  \/ ~ Ended(out, engine.line) /\ engine' = engine /\ input' = input /\ sent' = sent
           \/ /\ Ended(out, engine.line) /\ engine.state = "DefiningHelper"
              /\ engine' = Engine("Ready", NoLine) /\ input' = input /\ sent' = sent
           \/ /\ Ended(out, engine.line) /\ engine.state # "DefiningHelper" /\ sent' = sent + 2 /\ ~ alive
              /\ input' = input /\ engine' = Engine("NotStarted", NoLine)
           \/ /\ Ended(out, engine.line) /\ engine.state # "DefiningHelper" /\ sent' = sent + 2 /\ alive
              /\ input' = Append(Append(input, New(1, "helper")), New(2, "verify"))
              /\ engine' = Engine("DefiningHelper", New(2, "verify"))
<1>1. CASE ~ Ended(out, engine.line)
  BY <1>1 DEF PollInit
<1>2. CASE Ended(out, engine.line) /\ engine.state = "DefiningHelper"
  BY <1>2 DEF PollInit
<1>3. CASE Ended(out, engine.line) /\ engine.state # "DefiningHelper"
  <2>1. /\ WriteLines(Lines(<<"helper", "verify">>))
        /\ engine' = IF alive THEN Engine("DefiningHelper", Lines(<<"helper", "verify">>)[2])
                     ELSE Engine("NotStarted", NoLine)
    BY <1>3 DEF PollInit
  <2> QED
    BY <1>3, <2>1, LinesTwo DEF WriteLines, Types
<1> QED
  BY <1>1, <1>2, <1>3

\* The command's output is read, what is too much is dropped from the front, and
\* the program that asked for the cursor may leave the answer to bash.
LEMMA ReadEffect ==
    ASSUME Types, ReadCommandOutput
    PROVE  /\ pending # NoLine /\ out' = <<>> /\ sent' = sent /\ loose' = loose
           /\ UNCHANGED <<alive, current, printed, dir, helper, jobs, waiting, buf, engine, cwd, candidates, ops>>
           /\ \/ input' = input /\ upset' = upset
              \/ input' = Append(input, Typed) /\ alive /\ upset' = TRUE
           /\ \E n \in 0 .. Len(acc \o out) - 1 :
                /\ Kept(n) \in Seq(Token)
                /\ IF Ended(Kept(n), pending.id)
                   THEN /\ report' = [of |-> pending.id, tokens |-> Kept(n), cut |-> cut \/ n > 0]
                        /\ plan' = AfterCommand(pending) /\ pending' = NoLine /\ acc' = <<>> /\ cut' = FALSE
                   ELSE acc' = Kept(n) /\ cut' = (cut \/ n > 0) /\ report' = report /\ plan' = plan /\ pending' = pending
<1>1. PICK n \in 0 .. Len(acc \o out) - 1 :
         IF Ended(Kept(n), pending.id)
         THEN /\ report' = [of |-> pending.id, tokens |-> Kept(n), cut |-> cut \/ n > 0]
              /\ plan' = AfterCommand(pending) /\ pending' = NoLine /\ acc' = <<>> /\ cut' = FALSE
         ELSE acc' = Kept(n) /\ cut' = (cut \/ n > 0) /\ report' = report /\ plan' = plan /\ pending' = pending
  BY DEF ReadCommandOutput, Kept
<1>2. Kept(n) \in Seq(Token)
  BY DEF Kept, Types
<1>3. \E k \in 0 .. Len(acc \o out) - 1 :
        /\ Kept(k) \in Seq(Token)
        /\ IF Ended(Kept(k), pending.id)
           THEN /\ report' = [of |-> pending.id, tokens |-> Kept(k), cut |-> cut \/ k > 0]
                /\ plan' = AfterCommand(pending) /\ pending' = NoLine /\ acc' = <<>> /\ cut' = FALSE
           ELSE acc' = Kept(k) /\ cut' = (cut \/ k > 0) /\ report' = report /\ plan' = plan /\ pending' = pending
  BY <1>1, <1>2
<1> QED
  BY <1>3 DEF ReadCommandOutput, Reply, Event, BashKeeps

\* The engine's state and the line it waits for.
LEMMA EngineFields ==
    ASSUME NEW state, NEW line
    PROVE  Engine(state, line).state = state /\ Engine(state, line).line = line.id
BY DEF Engine

----------------------------------------------------------------------------
(* Every step keeps the types.                                             *)

\* A spoiled line is a line.
LEMMA Spoiled ==
    ASSUME NEW s \in Seq(Line), Len(s) > 1
    PROVE  /\ [s[2] EXCEPT !.kind = IF @ \in NoSentinel THEN "typed" ELSE "spoiled"] \in Line
           /\ SubSeq(s, 3, Len(s)) \in Seq(Line)
<1>1. s[2] \in Line
  OBVIOUS
<1>2. SubSeq(s, 3, Len(s)) \in Seq(Line)
  OBVIOUS
<1> QED
  BY <1>1, <1>2 DEF Line, Kinds

\* Steps stay in the sets of Types.
LEMMA TypesStep ==
    ASSUME TypeInv, Moves
    PROVE  Types'
<1> USE DEF TypeInv, Types
<1>0. NoLine \in Line /\ Typed \in Line /\ <<>> \in Seq(Token) /\ <<>> \in Seq(Line)
  BY DEF NoLine, Typed, Line, Kinds
<1>c. \A n \in 0 .. Len(out) : SubSeq(out, n + 1, Len(out)) \in Seq(Token) /\ SubSeq(out, 1, n) \in Seq(Token)
  OBVIOUS
<1>d. \A line \in Line : \A state \in {"NotStarted", "Sourcing", "DefiningHelper", "Ready"} :
        Engine(state, line) \in [state : {"NotStarted", "Sourcing", "DefiningHelper", "Ready"}, line : Nat]
  BY DEF Engine, Line
<1>e. \A kind \in {"user", "cd", "cwd", "git", "env", "query", "verify", "source", "helper"} : New(1, kind) \in Line
  BY Newed DEF Kinds
<1>f. \A l \in Line : Append(input, l) \in Seq(Line)
  OBVIOUS
<1>1. CASE StartCommand
  <2>1. input' \in Seq(Line) /\ sent' \in Nat /\ pending' \in Line
    <3>1. PICK kind \in {"user", "cd"} :
              /\ input' = (IF alive THEN Append(input, New(1, kind)) ELSE input) /\ sent' = sent + 1
              /\ pending' = (IF alive THEN New(1, kind) ELSE NoLine)
      BY <1>1, StartEffect
    <3>2. New(1, kind) \in Line
      BY <1>e
    <3> QED
      BY <1>0, <1>f, <3>1, <3>2
  <2> QED
    BY <1>0, <1>1, <2>1 DEF StartCommand, BashKeeps
<1>2. CASE ReadCommandOutput
  <2>1. PICK n \in 0 .. Len(acc \o out) - 1 :
           /\ Kept(n) \in Seq(Token)
           /\ IF Ended(Kept(n), pending.id)
              THEN plan' = AfterCommand(pending) /\ pending' = NoLine /\ acc' = <<>> /\ cut' = FALSE
              ELSE acc' = Kept(n) /\ cut' = (cut \/ n > 0) /\ plan' = plan /\ pending' = pending
    BY <1>2, ReadEffect
  <2>2. acc' \in Seq(Token) /\ pending' \in Line /\ plan' \in Plans /\ cut' \in BOOLEAN
    BY <1>0, <2>1, PlansMade
  <2>3. input' \in Seq(Line) /\ upset' \in BOOLEAN
    BY <1>0, <1>2, <1>f, ReadEffect
  <2> QED
    BY <1>0, <1>2, <2>2, <2>3, ReadEffect
<1>3. CASE CtrlCRunning \/ ActivityTimeout
  BY <1>0, <1>3, <1>c DEF CtrlCRunning, ActivityTimeout, Event, Abandon, Interrupt
<1>4. CASE CtrlCAtPrompt
  BY <1>0, <1>4 DEF CtrlCAtPrompt, Event, Interrupt, clientVars
<1>5. CASE ForwardKey
  BY <1>0, <1>5, <1>f DEF ForwardKey, Event, BashKeeps
<1>6. CASE WriteHelper
  <2>0. /\ input' = (IF alive THEN Append(input, New(1, "helper")) ELSE input)
        /\ sent' = sent + 1 /\ plan' = Tail(plan) /\ plan # <<>>
    BY <1>6, WriteHelperEffect
  <2>1. input' \in Seq(Line) /\ sent' \in Nat /\ plan' \in Plans
    BY <1>e, <1>f, <2>0, PlanFacts
  <2> QED
    BY <1>6, <2>1 DEF WriteHelper, BashKeeps
<1>7. CASE Execute
  <2>0. /\ Head(plan) \in {"cwd", "git", "env", "query", "verify", "source"}
        /\ input' = (IF alive THEN Append(input, New(1, Head(plan))) ELSE input)
        /\ sent' = sent + 1 /\ waiting' = New(1, Head(plan))
    BY <1>7, ExecuteEffect
  <2>1. input' \in Seq(Line) /\ sent' \in Nat /\ waiting' \in Line
    BY <1>e, <1>f, <2>0
  <2> QED
    BY <1>0, <1>7, <2>1 DEF Execute, BashKeeps
<1>8. ASSUME NEW ts, NEW done, plan # <<>>, Return(ts, done)
      PROVE  /\ plan' \in Plans /\ waiting' \in Line /\ buf' \in Seq(Token)
             /\ engine' \in [state : {"NotStarted", "Sourcing", "DefiningHelper", "Ready"}, line : Nat]
  BY <1>0, <1>8, <1>d, PlanFacts DEF Return
<1>9. CASE ReadChunk
  <2>1. PICK n \in 1 .. Len(out) :
         LET tokens == buf \o SubSeq(out, 1, n) IN
         /\ out' = SubSeq(out, n + 1, Len(out))
         /\ IF Ended(tokens, waiting.id) THEN Return(tokens, TRUE)
            ELSE buf' = tokens /\ UNCHANGED <<plan, waiting, cwd, candidates, engine>>
    BY <1>9 DEF ReadChunk
  <2>2. out' \in Seq(Token) /\ buf \o SubSeq(out, 1, n) \in Seq(Token) /\ n \in 0 .. Len(out)
    BY <1>c, <2>1
  <2>3. /\ plan' \in Plans /\ waiting' \in Line /\ buf' \in Seq(Token)
        /\ engine' \in [state : {"NotStarted", "Sourcing", "DefiningHelper", "Ready"}, line : Nat]
    <3>1. plan # <<>>
      BY <1>9 DEF ReadChunk, Control
    <3>2. CASE Ended(buf \o SubSeq(out, 1, n), waiting.id)
      BY <1>8, <2>1, <3>1, <3>2
    <3>3. CASE ~ Ended(buf \o SubSeq(out, 1, n), waiting.id)
      BY <2>1, <2>2, <3>3
    <3> QED
      BY <3>2, <3>3
  <2> QED
    BY <1>9, <2>2, <2>3 DEF ReadChunk, BashKeeps
<1>10. CASE ExecuteTimeout
  BY <1>8, <1>10 DEF ExecuteTimeout, BashKeeps, Control
<1>11. CASE PollInit
  <2>1. NoLine \in Line /\ New(1, "helper") \in Line /\ New(2, "verify") \in Line
    BY <1>0, LinesTwo
  <2>a. Append(Append(input, New(1, "helper")), New(2, "verify")) \in Seq(Line)
    BY <2>1
  <2>b. \/ input' = input /\ sent' = sent
        \/ sent' = sent + 2 /\ input' = input
        \/ sent' = sent + 2 /\ input' = Append(Append(input, New(1, "helper")), New(2, "verify"))
    BY <1>11, PollEffect
  <2>c. engine' = engine \/ engine' = Engine("Ready", NoLine) \/ engine' = Engine("NotStarted", NoLine)
        \/ engine' = Engine("DefiningHelper", New(2, "verify"))
    BY <1>11, PollEffect
  <2>d. sent + 2 \in Nat
    OBVIOUS
  <2>e. sent' \in Nat
    BY <2>b, <2>d
  <2>f. input' \in Seq(Line)
    BY <2>a, <2>b
  <2>2. input' \in Seq(Line) /\ sent' \in Nat
    BY <2>e, <2>f
  <2>3. engine' \in [state : {"NotStarted", "Sourcing", "DefiningHelper", "Ready"}, line : Nat]
    <3>1. Engine("Ready", NoLine) \in [state : {"NotStarted", "Sourcing", "DefiningHelper", "Ready"}, line : Nat]
      BY <1>d, <2>1
    <3>2. Engine("NotStarted", NoLine) \in [state : {"NotStarted", "Sourcing", "DefiningHelper", "Ready"}, line : Nat]
      BY <1>d, <2>1
    <3>3. Engine("DefiningHelper", New(2, "verify"))
              \in [state : {"NotStarted", "Sourcing", "DefiningHelper", "Ready"}, line : Nat]
      BY <1>d, <2>1
    <3> QED
      BY <2>c, <3>1, <3>2, <3>3
  <2> QED
    BY <1>0, <1>11, <2>2, <2>3 DEF PollInit, BashKeeps
<1>12. CASE PressTab
  BY <1>12, PlansMade DEF PressTab, Operates, bashVars
<1>13. CASE AwaitOver
  BY <1>13, PlanFacts, PlansMade DEF AwaitOver, BashKeeps
<1>14. CASE ResetEngine
  <2>0. /\ input' = (IF alive THEN Append(input, New(1, "source")) ELSE input) /\ sent' = sent + 1
        /\ engine' = IF alive THEN Engine("Sourcing", New(1, "source")) ELSE Engine("NotStarted", NoLine)
    BY <1>14, ResetEffect
  <2>1. input' \in Seq(Line) /\ sent' \in Nat
    BY <1>e, <1>f, <2>0
  <2>2. engine' \in [state : {"NotStarted", "Sourcing", "DefiningHelper", "Ready"}, line : Nat]
    BY <1>0, <1>d, <1>e, <2>0
  <2> QED
    BY <1>14, <2>1, <2>2 DEF ResetEngine, BashKeeps
<1>15. CASE BashStep /\ UNCHANGED clientVars
  <2> USE DEF clientVars
  <2>1. CASE StartLine
    <3>1. ASSUME NEW line \in Line, NEW rest \in Seq(Line), Run(line, rest) PROVE Types'
      <4>1. dir' \in Nat /\ helper' \in BOOLEAN
        BY <3>1 DEF Run
      <4> QED
        BY <1>15, <3>1, <4>1, PtyAssumption DEF Run
    <3>2. Head(input) \in Line /\ Tail(input) \in Seq(Line)
      BY <2>1, HeadTailProperties DEF StartLine
    <3>3. Len(input) > 1 => /\ [input[2] EXCEPT !.kind = IF @ \in NoSentinel THEN "typed" ELSE "spoiled"] \in Line
                            /\ SubSeq(input, 3, Len(input)) \in Seq(Line)
      BY Spoiled
    <3> QED
      BY <2>1, <3>1, <3>2, <3>3 DEF StartLine
  <2>2. CASE PrintText
    <3>0. NextText \in 0 .. MaxPrints
      BY PtyAssumption DEF NextText
    <3>1. Text(current, IF current.kind = "cwd" THEN dir ELSE NextText) \in Token
      BY <3>0 DEF Text, Token, Line
    <3>2. out' \in Seq(Token)
      BY <2>2, <3>1 DEF PrintText
    <3> QED
      BY <1>15, <2>2, <3>0, <3>2 DEF PrintText
  <2>3. CASE EndLine
    <3>1. End(current, printed) \in Token
      BY PtyAssumption DEF End, Token, Line
    <3>2. out' \in Seq(Token)
      BY <2>3, <3>1 DEF EndLine
    <3> QED
      BY <1>0, <1>15, <2>3, <3>2 DEF EndLine
  <2>4. CASE LeaveJob
    BY <1>15, <2>4 DEF LeaveJob, Event
  <2>5. CASE JobPrints
    <3>1. \A j \in jobs : [of |-> j, what |-> "text", val |-> 0] \in Token
      BY DEF Token, Numbers
    <3>2. out' \in Seq(Token)
      BY <2>5, <3>1 DEF JobPrints
    <3> QED
      BY <1>15, <2>5, <3>2 DEF JobPrints
  <2>6. CASE BashDies
    BY <1>0, <1>15, <2>6 DEF BashDies, Event
  <2> QED
    BY <1>15, <2>1, <2>2, <2>3, <2>4, <2>5, <2>6 DEF BashStep
<1> QED
  BY <1>1, <1>2, <1>3, <1>4, <1>5, <1>6, <1>7, <1>9, <1>10, <1>11, <1>12, <1>13, <1>14, <1>15 DEF Moves

----------------------------------------------------------------------------
(* What a step does to the terminal: to the lines it holds for bash and to  *)
(* the line bash runs.                                                      *)

\* A line is written, which says something to whoever waits for it.
Written(line) ==
    /\ line \in Line /\ line.id = sent + 1 /\ sent' = sent + 1 /\ line.kind \notin {"none", "typed", "spoiled"}
    /\ line.kind # "helper" => line.id \in {pending'.id, waiting'.id, engine'.line}
    /\ line.kind = "helper" => plan # <<>> /\ Head(plan) = "helper"
    /\ input' = Append(input, line) /\ current' = current /\ alive

\* The two lines of the second half of the initialisation are.
WrittenTwo ==
    /\ sent' = sent + 2 /\ engine'.line = sent + 2
    /\ pending = NoLine /\ (plan # <<>> => Head(plan) = "await")
    /\ input' = Append(Append(input, New(1, "helper")), New(2, "verify")) /\ current' = current /\ alive

\* The line that what was typed before it spoils.
SpoiledLine == [input[2] EXCEPT !.kind = IF @ \in NoSentinel THEN "typed" ELSE "spoiled"]

\* Bash starts with a line, or with one that was typed into.
Started ==
    /\ current = NoLine /\ input # <<>> /\ sent' = sent
    /\ \/ current' = Head(input) /\ input' = Tail(input)
       \/ /\ Head(input) = Typed /\ Len(input) > 1
          /\ current' = SpoiledLine /\ input' = SubSeq(input, 3, Len(input))

\* What a step does to the terminal's lines.
InputMove ==
    \/ input' = input /\ current' \in {NoLine, current} /\ sent' \in {sent, sent + 1, sent + 2}
    \/ input' = <<>> /\ current' \in {NoLine, current} /\ sent' = sent
    \/ \E line \in Line : Written(line)
    \/ WrittenTwo
    \/ /\ input' = Append(input, Typed) /\ current' = current /\ sent' = sent
       /\ pending # NoLine /\ (pending' = pending \/ ReadCommandOutput)
    \/ Started

\* Every step is one of these.
LEMMA InputMoves ==
    ASSUME TypeInv, Moves
    PROVE  InputMove
<1> USE DEF TypeInv, Types
<1>0. sent \in Nat
  OBVIOUS
<1>a. \A kind \in {"user", "cd", "cwd", "git", "env", "query", "verify", "source", "helper"} :
        New(1, kind) \in Line /\ New(1, kind).id = sent + 1 /\ New(1, kind).kind = kind
  <2>1. \A kind \in Kinds : New(1, kind) \in Line /\ New(1, kind).id = sent + 1 /\ New(1, kind).kind = kind
    BY Newed
  <2> QED
    BY <2>1 DEF Kinds
<1>b. ASSUME input' = input, current' = current, sent' = sent PROVE InputMove
  BY <1>b DEF InputMove
<1>1. CASE StartCommand
  <2>1. PICK kind \in {"user", "cd"} :
            /\ input' = (IF alive THEN Append(input, New(1, kind)) ELSE input) /\ sent' = sent + 1
            /\ pending' = (IF alive THEN New(1, kind) ELSE NoLine)
    BY <1>1, StartEffect
  <2>2. current' = current
    BY <1>1 DEF StartCommand, BashKeeps
  <2>3. CASE alive
    <3>1. Written(New(1, kind))
      BY <1>a, <2>1, <2>2, <2>3 DEF Written
    <3> QED
      BY <1>a, <3>1 DEF InputMove
  <2>4. CASE ~ alive
    BY <2>1, <2>2, <2>4 DEF InputMove
  <2> QED
    BY <2>3, <2>4
<1>2. CASE ReadCommandOutput
  BY <1>2, <1>b, ReadEffect DEF InputMove
<1>3. CASE CtrlCRunning \/ ActivityTimeout \/ CtrlCAtPrompt
  BY <1>3 DEF CtrlCRunning, ActivityTimeout, CtrlCAtPrompt, Event, Abandon, Interrupt, InputMove
<1>5. CASE ForwardKey
  BY <1>5 DEF ForwardKey, Event, BashKeeps, clientVars, InputMove
<1>6. CASE WriteHelper
  <2>1. /\ input' = (IF alive THEN Append(input, New(1, "helper")) ELSE input)
        /\ sent' = sent + 1 /\ plan # <<>> /\ Head(plan) = "helper"
    BY <1>6, WriteHelperEffect
  <2>2. current' = current
    BY <1>6 DEF WriteHelper, BashKeeps
  <2>3. CASE alive
    <3>1. Written(New(1, "helper"))
      BY <1>a, <2>1, <2>2, <2>3 DEF Written
    <3> QED
      BY <1>a, <3>1 DEF InputMove
  <2>4. CASE ~ alive
    BY <2>1, <2>2, <2>4 DEF InputMove
  <2> QED
    BY <2>3, <2>4
<1>7. CASE Execute
  <2>1. /\ Head(plan) \in {"cwd", "git", "env", "query", "verify", "source"}
        /\ input' = (IF alive THEN Append(input, New(1, Head(plan))) ELSE input)
        /\ sent' = sent + 1 /\ waiting' = New(1, Head(plan))
    BY <1>7, ExecuteEffect
  <2>2. current' = current
    BY <1>7 DEF Execute, BashKeeps
  <2>3. CASE alive
    <3>1. Written(New(1, Head(plan)))
      BY <1>a, <2>1, <2>2, <2>3 DEF Written
    <3> QED
      BY <1>a, <2>1, <3>1 DEF InputMove
  <2>4. CASE ~ alive
    BY <2>1, <2>2, <2>4 DEF InputMove
  <2> QED
    BY <2>3, <2>4
<1>9. CASE ReadChunk
  BY <1>9, <1>b DEF ReadChunk, BashKeeps
<1>10. CASE ExecuteTimeout
  BY <1>10, <1>b DEF ExecuteTimeout, BashKeeps
<1>11. CASE PollInit
  <2>1. current' = current /\ Polls
    BY <1>11 DEF PollInit, BashKeeps
  <2>2. \/ input' = input /\ sent' \in {sent, sent + 2}
        \/ /\ sent' = sent + 2 /\ alive /\ engine' = Engine("DefiningHelper", New(2, "verify"))
           /\ input' = Append(Append(input, New(1, "helper")), New(2, "verify"))
    BY <1>11, PollEffect
  <2>3. New(2, "verify").id = sent + 2
    BY LinesTwo
  <2>4. ASSUME engine' = Engine("DefiningHelper", New(2, "verify")) PROVE engine'.line = sent + 2
    BY <2>3, <2>4, EngineFields
  <2> QED
    BY <2>1, <2>2, <2>4 DEF InputMove, WrittenTwo, Polls
<1>12. CASE PressTab
  BY <1>12, <1>b DEF PressTab, bashVars
<1>13. CASE AwaitOver
  BY <1>13, <1>b DEF AwaitOver, BashKeeps
<1>14. CASE ResetEngine
  <2>1. /\ input' = (IF alive THEN Append(input, New(1, "source")) ELSE input) /\ sent' = sent + 1
        /\ engine' = IF alive THEN Engine("Sourcing", New(1, "source")) ELSE Engine("NotStarted", NoLine)
    BY <1>14, ResetEffect
  <2>2. current' = current
    BY <1>14 DEF ResetEngine, BashKeeps
  <2>3. CASE alive
    <3>1. engine'.line = New(1, "source").id
      BY <2>1, <2>3, EngineFields
    <3>2. Written(New(1, "source"))
      BY <1>a, <2>1, <2>2, <2>3, <3>1 DEF Written
    <3> QED
      BY <1>a, <3>2 DEF InputMove
  <2>4. CASE ~ alive
    BY <2>1, <2>2, <2>4 DEF InputMove
  <2> QED
    BY <2>3, <2>4
<1>15. CASE StartLine
  BY <1>15 DEF StartLine, Run, InputMove, Started, SpoiledLine
<1>16. CASE PrintText \/ JobPrints \/ LeaveJob
  BY <1>16, <1>b DEF PrintText, JobPrints, LeaveJob
<1>17. CASE EndLine
  BY <1>17 DEF EndLine, InputMove
<1>18. CASE BashDies
  BY <1>18 DEF BashDies, InputMove
<1> QED
  BY <1>1, <1>2, <1>3, <1>5, <1>6, <1>7, <1>9, <1>10, <1>11, <1>12, <1>13, <1>14, <1>15, <1>16, <1>17, <1>18
     DEF Moves, BashStep

----------------------------------------------------------------------------
(* What a step does to the client's side.                                  *)

\* Roles are given up or go to the line that is written; what nobody waits for
\* becomes loose.
Engaged ==
    /\ pending' \in {pending, NoLine} \/ (pending'.id = sent + 1 /\ sent' = sent + 1 /\ pending = NoLine)
    /\ waiting' \in {waiting, NoLine} \/ (waiting'.id = sent + 1 /\ sent' = sent + 1 /\ waiting = NoLine)
    /\ \/ engine' = engine
       \/ engine'.line = 0 /\ engine'.state \in {"NotStarted", "Ready"}
       \/ engine'.line = sent' /\ sent' # sent /\ engine'.state \in {"Sourcing", "DefiningHelper"}
\* What nobody waits for any more was waited for, or is what runs.
Loosened ==
    /\ loose \subseteq loose'
    /\ loose' \subseteq loose \cup {pending.id, waiting.id, engine.line, current.id}
    /\ jobs' \subseteq loose'

\* Steps do no more than this.
LEMMA ClientMoves ==
    ASSUME TypeInv, Moves
    PROVE  Engaged /\ Loosened
<1> USE DEF TypeInv, Types, Engaged, Loosened
<1>0. sent \in Nat /\ jobs \subseteq loose
  BY DEF Numbers
<1>a. \A kind \in {"user", "cd", "cwd", "git", "env", "query", "verify", "source", "helper"} : New(1, kind).id = sent + 1
  <2>1. \A kind \in Kinds : New(1, kind).id = sent + 1
    BY Newed
  <2> QED
    BY <2>1 DEF Kinds
<1>b. Overrun \subseteq loose \cup {engine.line} /\ loose \subseteq Overrun
  BY DEF Overrun
<1>c. NoLine.id = 0
  BY DEF NoLine
<1>1. CASE StartCommand
  <2>1. PICK kind \in {"user", "cd"} : sent' = sent + 1 /\ pending' = (IF alive THEN New(1, kind) ELSE NoLine)
    BY <1>1, StartEffect
  <2>2. pending = NoLine /\ waiting' = waiting /\ engine' = engine /\ jobs' = jobs /\ loose' \in {Overrun, loose}
    BY <1>1 DEF StartCommand, BashKeeps, Free
  <2> QED
    BY <1>0, <1>a, <1>b, <2>1, <2>2
<1>2. CASE ReadCommandOutput
  BY <1>0, <1>2, ReadEffect
<1>3. CASE CtrlCRunning \/ ActivityTimeout
  BY <1>0, <1>3 DEF CtrlCRunning, ActivityTimeout, Event, Abandon
<1>4. CASE CtrlCAtPrompt
  BY <1>0, <1>4 DEF CtrlCAtPrompt, clientVars
<1>5. CASE ForwardKey
  BY <1>0, <1>5 DEF ForwardKey, BashKeeps, clientVars
<1>6. CASE WriteHelper
  BY <1>0, <1>6 DEF WriteHelper, BashKeeps
<1>7. CASE Execute
  <2>1. /\ Head(plan) \in {"cwd", "git", "env", "query", "verify", "source"} /\ waiting = NoLine
        /\ sent' = sent + 1 /\ waiting' = New(1, Head(plan))
    BY <1>7, ExecuteEffect
  <2>2. waiting'.id = sent + 1
    BY <1>a, <2>1
  <2>3. pending' = pending /\ engine' = engine /\ loose' = loose /\ jobs' = jobs
    BY <1>7 DEF Execute, BashKeeps
  <2> QED
    BY <1>0, <2>1, <2>2, <2>3
<1>8. ASSUME NEW ts, NEW done, Return(ts, done)
      PROVE  waiting' = NoLine /\ (engine' = engine \/ engine' = Engine("Ready", NoLine))
  BY <1>8 DEF Return
<1>9. CASE ReadChunk
  <2>1. pending' = pending /\ loose' = loose /\ jobs' = jobs
    BY <1>9 DEF ReadChunk, BashKeeps
  <2>2. \/ waiting' = waiting /\ engine' = engine
        \/ waiting' = NoLine /\ (engine' = engine \/ engine' = Engine("Ready", NoLine))
    BY <1>8, <1>9 DEF ReadChunk
  <2> QED
    BY <1>0, <1>c, <2>1, <2>2, EngineFields
<1>10. CASE ExecuteTimeout
  <2>1. pending' = pending /\ loose' = loose \cup {waiting.id} /\ jobs' = jobs
    BY <1>10 DEF ExecuteTimeout, BashKeeps
  <2>2. waiting' = NoLine /\ (engine' = engine \/ engine' = Engine("Ready", NoLine))
    BY <1>8, <1>10 DEF ExecuteTimeout
  <2> QED
    BY <1>0, <1>c, <2>1, <2>2, EngineFields
<1>11. CASE PollInit
  <2>1. pending' = pending /\ waiting' = waiting /\ loose' = loose /\ jobs' = jobs
    BY <1>11 DEF PollInit, BashKeeps
  <2>2. \/ engine' = engine
        \/ engine' = Engine("Ready", NoLine)
        \/ engine' = Engine("NotStarted", NoLine)
        \/ sent' = sent + 2 /\ engine' = Engine("DefiningHelper", New(2, "verify"))
    BY <1>11, PollEffect
  <2>3. New(2, "verify").id = sent + 2
    BY LinesTwo
  <2>4. \/ engine' = engine
        \/ engine'.line = 0 /\ engine'.state \in {"NotStarted", "Ready"}
        \/ engine'.line = sent' /\ sent' # sent /\ engine'.state \in {"Sourcing", "DefiningHelper"}
    BY <1>0, <1>c, <2>2, <2>3, EngineFields
  <2> QED
    BY <1>0, <2>1, <2>4
<1>12. CASE PressTab
  BY <1>0, <1>12 DEF PressTab, bashVars
<1>13. CASE AwaitOver
  BY <1>0, <1>b, <1>13 DEF AwaitOver, BashKeeps
<1>14. CASE ResetEngine
  <2>1. /\ sent' = sent + 1
        /\ engine' = IF alive THEN Engine("Sourcing", New(1, "source")) ELSE Engine("NotStarted", NoLine)
    BY <1>14, ResetEffect
  <2>2. \/ engine'.line = 0 /\ engine'.state \in {"NotStarted", "Ready"}
        \/ engine'.line = sent' /\ sent' # sent /\ engine'.state \in {"Sourcing", "DefiningHelper"}
    BY <1>0, <1>a, <1>c, <2>1, EngineFields
  <2>3. pending' = pending /\ waiting' = waiting /\ loose' = Overrun /\ jobs' = jobs
    BY <1>14 DEF ResetEngine, BashKeeps
  <2> QED
    BY <1>0, <1>b, <2>2, <2>3
<1>15. CASE BashStep /\ UNCHANGED clientVars
  <2>1. pending' = pending /\ waiting' = waiting /\ engine' = engine
    BY <1>15 DEF clientVars
  <2>2. loose \subseteq loose' /\ loose' \subseteq loose \cup {current.id} /\ jobs' \subseteq loose'
    BY <1>0, <1>15 DEF BashStep, StartLine, Run, PrintText, EndLine, LeaveJob, JobPrints, BashDies
  <2> QED
    BY <2>1, <2>2
<1> QED
  BY <1>1, <1>2, <1>3, <1>4, <1>5, <1>6, <1>7, <1>9, <1>10, <1>11, <1>12, <1>13, <1>14, <1>15 DEF Moves

\* What is left of a sequence keeps its order.
LEMMA Left ==
    ASSUME NEW S, NEW s \in Seq(S), NEW n \in 0 .. Len(s)
    PROVE  /\ SubSeq(s, n + 1, Len(s)) \in Seq(S) /\ Len(SubSeq(s, n + 1, Len(s))) = Len(s) - n
           /\ \A i \in 1 .. Len(s) - n : SubSeq(s, n + 1, Len(s))[i] = s[n + i]
OBVIOUS

\* One more behind.
LEMMA Behind ==
    ASSUME NEW S, NEW s \in Seq(S), NEW e \in S
    PROVE  /\ Append(s, e) \in Seq(S) /\ Len(Append(s, e)) = Len(s) + 1
           /\ Append(s, e)[Len(s) + 1] = e
           /\ \A i \in 1 .. Len(s) : Append(s, e)[i] = s[i]
           /\ \A i \in 1 .. Len(Append(s, e)) : i \in 1 .. Len(s) \/ i = Len(s) + 1
OBVIOUS

\* What bash starts with and what it leaves.
LEMMA StartedLines ==
    ASSUME Types, Started
    PROVE  \E n \in 1 .. 2 :
             /\ n <= Len(input) /\ input' \in Seq(Line) /\ Len(input') = Len(input) - n
             /\ \A i \in 1 .. Len(input') : input'[i] = input[n + i]
             /\ current'.id = input[n].id
             /\ n = 1 => current' = input[1]
             /\ n = 2 => input[1] = Typed /\ current'.kind = IF input[2].kind \in NoSentinel THEN "typed" ELSE "spoiled"
<1> USE DEF Types
<1>1. CASE current' = Head(input) /\ input' = Tail(input) /\ input # <<>>
  BY <1>1, HeadTailProperties
<1>2. CASE Head(input) = Typed /\ Len(input) > 1 /\ current' = SpoiledLine /\ input' = SubSeq(input, 3, Len(input))
  <2>1. input[2] \in Line /\ input[1] = Typed /\ 2 \in 0 .. Len(input)
    BY <1>2
  <2>2. /\ input' \in Seq(Line) /\ Len(input') = Len(input) - 2
        /\ \A i \in 1 .. Len(input) - 2 : input'[i] = input[2 + i]
    <3>1. 2 + 1 = 3
      OBVIOUS
    <3>2. /\ SubSeq(input, 2 + 1, Len(input)) \in Seq(Line) /\ Len(SubSeq(input, 2 + 1, Len(input))) = Len(input) - 2
          /\ \A i \in 1 .. Len(input) - 2 : SubSeq(input, 2 + 1, Len(input))[i] = input[2 + i]
      BY <2>1, Left
    <3> QED
      BY <1>2, <3>1, <3>2
  <2>3. current'.id = input[2].id /\ current'.kind = IF input[2].kind \in NoSentinel THEN "typed" ELSE "spoiled"
    BY <1>2, <2>1 DEF SpoiledLine, Line
  <2> QED
    BY <1>2, <2>1, <2>2, <2>3
<1> QED
  BY <1>1, <1>2 DEF Started

\* Numbers are given in order, once.
LEMMA NumbersStep ==
    ASSUME TypeInv, Moves
    PROVE  Numbers'
<1> USE DEF TypeInv
<1>1. Types' /\ InputMove /\ Engaged /\ Loosened
  BY TypesStep, InputMoves, ClientMoves
<1>2. sent \in Nat /\ sent' \in Nat /\ sent' >= sent
  BY <1>1 DEF InputMove, Written, WrittenTwo, Started, Types
<1>a. pending.id \in 0 .. sent /\ waiting.id \in 0 .. sent /\ current.id \in 0 .. sent /\ engine.line \in 0 .. sent
  BY <1>2 DEF Numbers, Types, Line
<1>b. NoLine.id = 0 /\ Typed.id = 0
  BY DEF NoLine, Typed
<1>c. input \in Seq(Line) /\ \A i \in 1 .. Len(input) : (input[i].id = 0 => input[i] = Typed) /\ input[i].id \in 0 .. sent
  <2>1. \A i \in 1 .. Len(input) : input[i] \in Line
    BY DEF Types
  <2> QED
    BY <1>2, <2>1 DEF Numbers, Types, Line
<1>d. 0 .. sent \subseteq 0 .. sent'
  BY <1>2
<1> DEFINE Fit(l) == (l.id = 0 => l = Typed) /\ l.id \in 0 .. sent'
<1>e. (current = NoLine \/ Fit(current)) /\ Fit(Typed) /\ \A i \in 1 .. Len(input) : Fit(input[i])
  BY <1>2, <1>a, <1>b, <1>c, <1>d DEF Numbers
<1>f. \A line \in Line : line.id = sent' /\ sent' # 0 => Fit(line)
  BY <1>2
<1>3. (\A i \in 1 .. Len(input') : Fit(input'[i])) /\ (current' = NoLine \/ Fit(current'))
  <2> HIDE DEF Fit
  <2>1. CASE input' = input /\ current' \in {NoLine, current}
    BY <1>e, <2>1
  <2>2. CASE input' = <<>> /\ current' \in {NoLine, current}
    BY <1>e, <2>2
  <2>3. ASSUME NEW line \in Line, Written(line)
        PROVE  (\A i \in 1 .. Len(input') : Fit(input'[i])) /\ (current' = NoLine \/ Fit(current'))
    <3>1. Fit(line)
      BY <1>2, <1>f, <2>3 DEF Written
    <3>2. input' = Append(input, line) /\ current' = current
      BY <2>3 DEF Written
    <3> QED
      BY <1>c, <1>e, <3>1, <3>2, Behind
  <2>4. CASE WrittenTwo
    <3>1. /\ New(1, "helper") \in Line /\ New(1, "helper").id = sent + 1
          /\ New(2, "verify") \in Line /\ New(2, "verify").id = sent + 2
      BY <1>2, <1>c, LinesTwo
    <3>2. Fit(New(1, "helper")) /\ Fit(New(2, "verify"))
      BY <1>2, <2>4, <3>1 DEF Fit, WrittenTwo
    <3>3. Append(input, New(1, "helper")) \in Seq(Line)
      BY <1>c, <3>1
    <3>4. \A i \in 1 .. Len(Append(input, New(1, "helper"))) : Fit(Append(input, New(1, "helper"))[i])
      BY <1>c, <1>e, <3>1, <3>2, Behind
    <3>5. \A i \in 1 .. Len(input') : Fit(input'[i])
      BY <2>4, <3>1, <3>2, <3>3, <3>4, Behind DEF WrittenTwo
    <3> QED
      BY <1>e, <2>4, <3>5 DEF WrittenTwo
  <2>5. CASE input' = Append(input, Typed) /\ current' = current
    <3>1. Typed \in Line
      BY DEF Typed, Line, Kinds
    <3> QED
      BY <1>c, <1>e, <2>5, <3>1, Behind
  <2>6. CASE Started
    <3>1. PICK n \in 1 .. 2 :
             /\ n <= Len(input) /\ input' \in Seq(Line) /\ Len(input') = Len(input) - n
             /\ \A i \in 1 .. Len(input') : input'[i] = input[n + i]
             /\ current'.id = input[n].id
             /\ n = 1 => current' = input[1]
             /\ n = 2 => input[1] = Typed /\ current'.kind = IF input[2].kind \in NoSentinel THEN "typed" ELSE "spoiled"
      BY <2>6, StartedLines
    <3>2. \A i \in 1 .. Len(input') : Fit(input'[i])
      BY <1>c, <1>e, <3>1
    <3>3. n \in 1 .. Len(input) /\ Fit(input[n])
      BY <1>c, <1>e, <3>1
    <3>4. n = 2 /\ input[2].id = 0 => current' = Typed
      <4>1. n = 2 /\ input[2].id = 0 => input[2] = Typed
        BY <1>c, <3>3
      <4>2. current' \in Line
        BY <1>1 DEF Types
      <4> QED
        BY <3>1, <4>1, <4>2 DEF Typed, NoSentinel, Line
    <3>5. Fit(current')
      BY <3>1, <3>3, <3>4 DEF Fit
    <3> QED
      BY <3>2, <3>5
  <2> QED
    BY <1>1, <2>1, <2>2, <2>3, <2>4, <2>5, <2>6 DEF InputMove
<1>5. (pending'.id = 0 => pending' = NoLine) /\ pending'.id <= sent'
  BY <1>1, <1>2, <1>a, <1>b DEF Engaged, Numbers
<1>6. (waiting'.id = 0 => waiting' = NoLine) /\ waiting'.id <= sent'
  BY <1>1, <1>2, <1>a, <1>b DEF Engaged, Numbers
<1>7. (InProgress' <=> engine'.line # 0) /\ engine'.line <= sent'
  BY <1>1, <1>2 DEF Engaged, Numbers, InProgress, Types
<1>8. 0 \in loose' /\ loose' \subseteq 0 .. sent' /\ jobs' \subseteq loose'
  <2>1. loose' \subseteq 0 .. sent
    BY <1>1, <1>a DEF Loosened, Numbers
  <2> QED
    BY <1>1, <1>2, <2>1 DEF Loosened, Numbers
<1>9. \A i \in 1 .. Len(input') : input'[i].id = 0 => input'[i] = Typed
  BY <1>3
<1>10. (current'.id = 0 => current' \in {NoLine, Typed}) /\ current'.id <= sent'
  BY <1>2, <1>3, <1>b
<1>11. \A i \in 1 .. Len(input') : input'[i].id <= sent'
  BY <1>2, <1>3
<1> HIDE DEF Fit
<1>12. input' \in Seq(Line)
  BY <1>1 DEF Types
<1>13. DOMAIN input' = 1 .. Len(input')
  BY <1>12
<1> QED
  BY <1>5, <1>6, <1>7, <1>8, <1>9, <1>10, <1>11, <1>13 DEF Numbers

\* One thing is waited for at a time.
LEMMA ControlStep ==
    ASSUME TypeInv, Moves
    PROVE  Control'
<1> USE DEF TypeInv, Control
<1>0. sent \in Nat /\ NoLine.id = 0 /\ NoLine.kind = "none" /\ 0 \in loose /\ Numbers'
  BY NumbersStep DEF Types, NoLine, Numbers
<1>a. \A kind \in {"user", "cd", "cwd", "git", "env", "query", "verify", "source", "helper"} :
        New(1, kind).id = sent + 1 /\ New(1, kind).kind = kind
  <2>1. \A kind \in Kinds : New(1, kind).id = sent + 1 /\ New(1, kind).kind = kind
    BY <1>0, Newed
  <2> QED
    BY <2>1 DEF Kinds
<1>1. CASE StartCommand
  <2>1. PICK kind \in {"user", "cd"} :
            /\ input' = (IF alive THEN Append(input, New(1, kind)) ELSE input)
            /\ pending' = (IF alive THEN New(1, kind) ELSE NoLine)
    BY <1>1, StartEffect
  <2>2. /\ pending = NoLine /\ plan = <<>> /\ acc' = <<>> /\ cut' = FALSE /\ loose' = (IF alive THEN Overrun ELSE loose)
        /\ plan' = plan /\ waiting' = waiting /\ buf' = buf /\ engine' = engine /\ alive' = alive
    BY <1>1 DEF StartCommand, BashKeeps, Free
  <2>3. pending'.kind \in {"none", "user", "cd"} /\ (pending' # NoLine => alive)
    BY <1>0, <1>a, <2>1
  <2>4. InProgress' <=> InProgress
    BY <2>2 DEF InProgress
  <2>5. alive /\ InProgress => engine'.line \in loose'
    BY <2>2 DEF Overrun
  <2> QED
    BY <2>1, <2>2, <2>3, <2>4, <2>5
<1>2. CASE ReadCommandOutput
  <2>1. \/ pending' = NoLine /\ acc' = <<>> /\ cut' = FALSE
        \/ pending' = pending /\ plan' = plan
    BY <1>2, ReadEffect
  <2>2. /\ pending # NoLine /\ waiting' = waiting /\ buf' = buf /\ engine' = engine /\ loose' = loose
        /\ alive' = alive
        /\ ~ alive => input' = input
    BY <1>2, ReadEffect
  <2>3. InProgress => engine.line \in loose
    BY <2>2
  <2>4. InProgress' <=> InProgress
    BY <2>2 DEF InProgress
  <2>5. pending'.kind \in {"none", "user", "cd"} /\ waiting = NoLine
    BY <1>0, <2>1, <2>2
  <2> QED
    BY <2>1, <2>2, <2>3, <2>4, <2>5
<1>3. CASE CtrlCRunning \/ ActivityTimeout
  BY <1>3, <1>0 DEF CtrlCRunning, ActivityTimeout, Event, Abandon, Interrupt, InProgress
<1>4. CASE CtrlCAtPrompt
  BY <1>4, <1>0 DEF CtrlCAtPrompt, Interrupt, clientVars, InProgress
<1>5. CASE ForwardKey
  BY <1>5, <1>0 DEF ForwardKey, BashKeeps, clientVars, InProgress
<1>b. waiting # NoLine => Head(plan) # "await"
  OBVIOUS
<1>6. CASE WriteHelper
  <2>1. plan # <<>> /\ Head(plan) = "helper"
    BY <1>6 DEF WriteHelper
  <2>2. waiting = NoLine /\ pending = NoLine /\ (InProgress => engine.line \in loose)
    BY <2>1
  <2>3. /\ pending' = pending /\ acc' = acc /\ cut' = cut /\ waiting' = waiting /\ buf' = buf /\ engine' = engine
        /\ loose' = loose /\ alive' = alive /\ (~ alive => input' = input)
    BY <1>6 DEF WriteHelper, BashKeeps, WriteLines
  <2>4. InProgress' <=> InProgress
    BY <2>3 DEF InProgress
  <2> QED
    BY <2>2, <2>3, <2>4
<1>7. CASE Execute
  <2>1. /\ plan # <<>> /\ Head(plan) \in {"cwd", "git", "env", "query", "verify", "source"}
        /\ waiting' = New(1, Head(plan))
    BY <1>7, ExecuteEffect
  <2>2. waiting'.kind = Head(plan) /\ waiting'.id = sent + 1
    BY <1>a, <2>1
  <2>3. /\ pending' = pending /\ acc' = acc /\ cut' = cut /\ buf' = <<>> /\ engine' = engine
        /\ loose' = loose /\ alive' = alive /\ (~ alive => input' = input) /\ plan' = plan
    BY <1>7 DEF Execute, BashKeeps, WriteLines
  <2>4. InProgress' <=> InProgress
    BY <2>3 DEF InProgress
  <2>5. InProgress => engine.line \in loose
    BY <2>1
  <2> QED
    BY <2>1, <2>2, <2>3, <2>4, <2>5
<1>8. ASSUME NEW ts, NEW done, Return(ts, done), waiting # NoLine
      PROVE  /\ waiting' = NoLine /\ buf' = <<>> /\ plan' = Tail(plan)
             /\ engine' = engine \/ engine' = Engine("Ready", NoLine)
  BY <1>8 DEF Return
<1>c. ASSUME waiting # NoLine, pending' = pending, acc' = acc, cut' = cut, loose \subseteq loose',
             alive' = alive, input' = input,
             engine' = engine \/ engine' = Engine("Ready", NoLine),
             \/ waiting' = NoLine /\ buf' = <<>>
             \/ waiting' = waiting /\ plan' = plan
      PROVE  Control'
  <2>1. pending = NoLine /\ Head(plan) # "await" /\ plan # <<>>
    BY <1>c
  <2>2. InProgress' => engine' = engine /\ InProgress
    BY <1>c, EngineFields DEF InProgress
  <2>3. InProgress' => engine'.line \in loose'
    BY <1>c, <2>1, <2>2
  <2> QED
    BY <1>0, <1>c, <2>1, <2>3
<1>9. CASE ReadChunk
  <2>1. /\ waiting # NoLine /\ pending' = pending /\ acc' = acc /\ cut' = cut /\ loose' = loose
        /\ alive' = alive /\ input' = input
    BY <1>9 DEF ReadChunk, BashKeeps
  <2>2. PICK n \in 1 .. Len(out) :
         LET tokens == buf \o SubSeq(out, 1, n) IN
         IF Ended(tokens, waiting.id) THEN Return(tokens, TRUE)
         ELSE buf' = tokens /\ UNCHANGED <<plan, waiting, cwd, candidates, engine>>
    BY <1>9 DEF ReadChunk
  <2> QED
    BY <1>8, <1>c, <2>1, <2>2
<1>10. CASE ExecuteTimeout
  <2>1. /\ waiting # NoLine /\ pending' = pending /\ acc' = acc /\ cut' = cut /\ loose \subseteq loose'
        /\ alive' = alive /\ input' = input
        /\ Return(buf, FALSE)
    BY <1>10 DEF ExecuteTimeout, BashKeeps
  <2> QED
    BY <1>8, <1>c, <2>1
<1>11. CASE PollInit
  <2>1. /\ pending = NoLine /\ (plan # <<>> => Head(plan) = "await") /\ waiting = NoLine
        /\ pending' = pending /\ acc' = acc /\ cut' = cut /\ plan' = plan /\ waiting' = waiting /\ buf' = buf
        /\ alive' = alive
    BY <1>11 DEF PollInit, Polls, BashKeeps
  <2>2. ~ alive => input' = input
    BY <1>11, PollEffect
  <2> QED
    BY <2>1, <2>2
<1>12. CASE PressTab
  <2>1. /\ pending = NoLine /\ waiting = NoLine
        /\ pending' = pending /\ acc' = acc /\ cut' = cut /\ waiting' = waiting /\ buf' = buf
        /\ alive' = alive /\ input' = input
        /\ engine' = engine
    BY <1>12 DEF PressTab, bashVars, Free
  <2>2. InProgress => plan' = <<"await", "query">>
    BY <1>12 DEF PressTab, InProgress
  <2>3. InProgress' <=> InProgress
    BY <2>1 DEF InProgress
  <2> QED
    BY <2>1, <2>2, <2>3, PlansMade
<1>13. CASE AwaitOver
  <2>1. plan # <<>> /\ Head(plan) = "await" /\ waiting = NoLine /\ pending = NoLine
    BY <1>13 DEF AwaitOver
  <2>2. /\ pending' = pending /\ acc' = acc /\ cut' = cut /\ waiting' = waiting /\ buf' = buf
        /\ alive' = alive /\ input' = input
        /\ engine' = engine /\ loose' = Overrun
    BY <1>13 DEF AwaitOver, BashKeeps
  <2>3. InProgress' => engine'.line \in loose'
    BY <2>2 DEF InProgress, Overrun
  <2> QED
    BY <2>1, <2>2, <2>3
<1>14. CASE ResetEngine
  <2>1. /\ pending = NoLine /\ plan = <<>> /\ waiting = NoLine
        /\ pending' = pending /\ acc' = acc /\ cut' = cut /\ plan' = plan /\ waiting' = waiting /\ buf' = buf
        /\ alive' = alive
        /\ (~ alive => input' = input)
    BY <1>14 DEF ResetEngine, Free, BashKeeps, WriteLines
  <2> QED
    BY <2>1
<1>15. CASE BashStep /\ UNCHANGED clientVars
  <2>1. /\ pending' = pending /\ acc' = acc /\ cut' = cut /\ plan' = plan /\ waiting' = waiting /\ buf' = buf
        /\ engine' = engine
    BY <1>15 DEF clientVars
  <2>2. loose \subseteq loose'
    BY ClientMoves DEF Loosened
  <2>3. ~ alive' => input' = <<>>
    BY <1>15 DEF BashStep, StartLine, Run, PrintText, EndLine, LeaveJob, JobPrints, BashDies
  <2>4. InProgress' <=> InProgress
    BY <2>1 DEF InProgress
  <2> QED
    BY <2>1, <2>2, <2>3, <2>4
<1> QED
  BY <1>1, <1>2, <1>3, <1>4, <1>5, <1>6, <1>7, <1>9, <1>10, <1>11, <1>12, <1>13, <1>14, <1>15 DEF Moves

\* Every step keeps all of it.
LEMMA TypeStep ==
    ASSUME TypeInv, Moves
    PROVE  TypeInv'
BY TypesStep, NumbersStep, ControlStep DEF TypeInv

----------------------------------------------------------------------------
(* Tokens.                                                                 *)

\* The sentinel of a line is the last that comes from it.
SpentIn(tokens, id) == \A i, j \in DOMAIN tokens : i < j /\ tokens[i].of = id /\ tokens[i].what = "end" => tokens[j].of # id

\* One token behind others.
LEMMA TokenBehind ==
    ASSUME NEW ts \in Seq(Token), NEW t \in Token, NEW id
    PROVE  /\ Of(Append(ts, t)) = Of(ts) \cup {t.of}
           /\ Ended(Append(ts, t), id) => Ended(ts, id) \/ (t.of = id /\ t.what = "end")
           /\ SpentIn(ts, id) /\ ~ (Ended(ts, id) /\ t.of = id) => SpentIn(Append(ts, t), id)
<1> DEFINE a == Append(ts, t)
           n == Len(ts)
<1>1. /\ n \in Nat /\ a[n + 1] = t /\ DOMAIN a = 1 .. n + 1 /\ DOMAIN ts = 1 .. n
      /\ \A i \in 1 .. n : a[i] = ts[i]
  OBVIOUS
<1>2. \A i \in 1 .. n + 1 : i \in 1 .. n \/ i = n + 1
  BY <1>1
<1>3. n + 1 \in 1 .. n + 1 /\ 1 .. n \subseteq 1 .. n + 1 /\ \A i \in 1 .. n : i < n + 1 /\ ~ (n + 1 < i)
  BY <1>1
<1> HIDE DEF a, n
<1>4. Of(a) = Of(ts) \cup {t.of}
  BY <1>1, <1>2, <1>3 DEF Of
<1>5. Ended(a, id) => Ended(ts, id) \/ (t.of = id /\ t.what = "end")
  BY <1>1, <1>2 DEF Ended
<1>6. ASSUME SpentIn(ts, id), ~ (Ended(ts, id) /\ t.of = id), NEW i \in DOMAIN a, NEW j \in DOMAIN a,
             i < j, a[i].of = id, a[i].what = "end"
      PROVE  a[j].of # id
  <2>0. i \in 1 .. n + 1 /\ j \in 1 .. n + 1
    BY <1>1
  <2>1. i \in 1 .. n
    BY <1>1, <1>6, <2>0
  <2>2. Ended(ts, id)
    BY <1>1, <1>6, <2>1 DEF Ended
  <2>3. CASE j = n + 1
    BY <1>1, <1>6, <2>2, <2>3
  <2>4. CASE j \in 1 .. n
    BY <1>1, <1>6, <2>1, <2>4 DEF SpentIn
  <2> QED
    BY <1>2, <2>0, <2>3, <2>4
<1> QED
  BY <1>4, <1>5, <1>6 DEF SpentIn, a

\* Some tokens behind others.
LEMMA TokensBehind ==
    ASSUME NEW s \in Seq(Token), NEW t \in Seq(Token), NEW id
    PROVE  /\ s \o t \in Seq(Token)
           /\ Of(s \o t) = Of(s) \cup Of(t)
           /\ Ended(s \o t, id) <=> Ended(s, id) \/ Ended(t, id)
<1> DEFINE c == s \o t
           m == Len(s)
           n == Len(t)
<1>1. /\ m \in Nat /\ n \in Nat /\ DOMAIN s = 1 .. m /\ DOMAIN t = 1 .. n /\ DOMAIN c = 1 .. m + n /\ c \in Seq(Token)
      /\ \A i \in 1 .. m : c[i] = s[i]
      /\ \A i \in 1 .. n : c[m + i] = t[i]
  OBVIOUS
<1>2. \A i \in 1 .. m + n : i \in 1 .. m \/ \E j \in 1 .. n : i = m + j
  <2> TAKE i \in 1 .. m + n
  <2>1. i \in 1 .. m \/ (i - m \in 1 .. n /\ i = m + (i - m))
    BY <1>1
  <2> QED
    BY <2>1
<1>3. (\A i \in 1 .. m : i \in 1 .. m + n) /\ (\A i \in 1 .. n : m + i \in 1 .. m + n)
  BY <1>1
<1> HIDE DEF c, m, n
<1>4. Of(c) = Of(s) \cup Of(t)
  <2>1. ASSUME NEW i \in DOMAIN c PROVE c[i].of \in Of(s) \cup Of(t)
    <3>1. CASE i \in 1 .. m
      BY <1>1, <3>1 DEF Of
    <3>2. CASE \E j \in 1 .. n : i = m + j
      BY <1>1, <3>2 DEF Of
    <3> QED
      BY <1>1, <1>2, <3>1, <3>2
  <2>2. \A i \in DOMAIN s : s[i].of \in Of(c)
    BY <1>1, <1>3 DEF Of
  <2>3. \A i \in DOMAIN t : t[i].of \in Of(c)
    BY <1>1, <1>3 DEF Of
  <2> QED
    BY <2>1, <2>2, <2>3 DEF Of
<1>5. Ended(c, id) <=> Ended(s, id) \/ Ended(t, id)
  <2>1. Ended(c, id) => Ended(s, id) \/ Ended(t, id)
    <3> SUFFICES ASSUME NEW i \in 1 .. m + n, c[i].of = id, c[i].what = "end" PROVE Ended(s, id) \/ Ended(t, id)
      BY <1>1 DEF Ended
    <3>1. CASE i \in 1 .. m
      BY <1>1, <3>1 DEF Ended
    <3>2. CASE \E j \in 1 .. n : i = m + j
      BY <1>1, <3>2 DEF Ended
    <3> QED
      BY <1>2, <3>1, <3>2
  <2>2. Ended(s, id) \/ Ended(t, id) => Ended(c, id)
    BY <1>1, <1>3 DEF Ended
  <2> QED
    BY <2>1, <2>2
<1> QED
  BY <1>1, <1>4, <1>5 DEF c

\* What is read and what is left.
LEMMA TokensLeft ==
    ASSUME NEW s \in Seq(Token), NEW n \in 0 .. Len(s), NEW id
    PROVE  /\ SubSeq(s, n + 1, Len(s)) \in Seq(Token) /\ SubSeq(s, 1, n) \in Seq(Token)
           /\ Of(SubSeq(s, n + 1, Len(s))) \subseteq Of(s) /\ Of(SubSeq(s, 1, n)) \subseteq Of(s)
           /\ Ended(SubSeq(s, n + 1, Len(s)), id) => Ended(s, id)
           /\ Ended(SubSeq(s, 1, n), id) => Ended(s, id)
           /\ SpentIn(s, id) => SpentIn(SubSeq(s, n + 1, Len(s)), id)
           /\ SpentIn(s, id) /\ Ended(SubSeq(s, 1, n), id) => id \notin Of(SubSeq(s, n + 1, Len(s)))
<1> DEFINE u == SubSeq(s, 1, n)
           r == SubSeq(s, n + 1, Len(s))
           m == Len(s)
           k == m - n
<1>1. m \in Nat /\ n \in Nat /\ k \in Nat /\ DOMAIN s = 1 .. m
  OBVIOUS
<1>2. u \in Seq(Token) /\ DOMAIN u = 1 .. n /\ \A i \in 1 .. n : u[i] = s[i]
  OBVIOUS
<1>3. r \in Seq(Token) /\ DOMAIN r = 1 .. k /\ \A i \in 1 .. k : r[i] = s[n + i]
  BY Left
<1>4. \A i \in 1 .. k : n + i \in 1 .. m
  OBVIOUS
<1>5. \A i \in 1 .. n : i \in 1 .. m
  OBVIOUS
<1>6. \A i \in 1 .. n : \A j \in 1 .. k : i < n + j
  OBVIOUS
<1>7. \A i, j \in 1 .. k : i < j => n + i < n + j
  OBVIOUS
<1> HIDE DEF u, r, m, k
<1>8. Of(r) \subseteq Of(s) /\ Of(u) \subseteq Of(s)
  <2>1. ASSUME NEW i \in 1 .. k PROVE r[i].of \in Of(s)
    BY <1>1, <1>3, <1>4 DEF Of
  <2>2. ASSUME NEW i \in 1 .. n PROVE u[i].of \in Of(s)
    BY <1>1, <1>2, <1>5 DEF Of
  <2>3. Of(r) \subseteq Of(s)
    BY <1>3, <2>1 DEF Of
  <2>4. Of(u) \subseteq Of(s)
    BY <1>2, <2>2 DEF Of
  <2> QED
    BY <2>3, <2>4
<1>9. (Ended(r, id) => Ended(s, id)) /\ (Ended(u, id) => Ended(s, id))
  BY <1>1, <1>2, <1>3, <1>4, <1>5 DEF Ended
<1>10. SpentIn(s, id) => SpentIn(r, id)
  BY <1>1, <1>3, <1>4, <1>7 DEF SpentIn
<1>11. SpentIn(s, id) /\ Ended(u, id) => id \notin Of(r)
  <2> SUFFICES ASSUME SpentIn(s, id), NEW i \in 1 .. n, u[i].of = id, u[i].what = "end", NEW j \in 1 .. k
               PROVE  r[j].of # id
    BY <1>2, <1>3 DEF Ended, Of
  <2> QED
    BY <1>1, <1>2, <1>3, <1>4, <1>5, <1>6 DEF SpentIn
<1> QED
  BY <1>2, <1>3, <1>8, <1>9, <1>10, <1>11 DEF u, r, m

----------------------------------------------------------------------------
(* Lines.                                                                  *)

\* Lines that wait have numbers of their own, and none that prints nothing
\* follows what was typed.
Apart(lines) ==
    /\ \A i, j \in DOMAIN lines : i # j /\ lines[i].id = lines[j].id => lines[i].id = 0
    /\ \A i \in DOMAIN lines : i + 1 \in DOMAIN lines /\ lines[i] = Typed => lines[i + 1].kind # "helper"

\* A new line behind lines that are apart.
LEMMA LineBehind ==
    ASSUME NEW s \in Seq(Line), NEW l \in Line, Apart(s), l.id # 0 => l.id \notin Ids(s),
           s # <<>> /\ s[Len(s)] = Typed => l.kind # "helper"
    PROVE  /\ Append(s, l) \in Seq(Line) /\ Apart(Append(s, l)) /\ Ids(Append(s, l)) = Ids(s) \cup {l.id}
           /\ Append(s, l) # <<>> /\ Append(s, l)[Len(Append(s, l))] = l
<1> DEFINE a == Append(s, l)
           n == Len(s)
<1>a. /\ n \in Nat /\ DOMAIN s = 1 .. n /\ (n # 0 => s # <<>>)
  OBVIOUS
<1>b. /\ a \in Seq(Line) /\ Len(a) = n + 1 /\ a[n + 1] = l /\ \A i \in 1 .. n : a[i] = s[i]
  BY Behind
<1>1. /\ n \in Nat /\ a[n + 1] = l /\ DOMAIN a = 1 .. n + 1 /\ DOMAIN s = 1 .. n /\ Len(a) = n + 1
      /\ a \in Seq(Line) /\ a # <<>> /\ (n # 0 => s # <<>>)
      /\ \A i \in 1 .. n : a[i] = s[i]
  BY <1>a, <1>b
<1>2. \A i \in 1 .. n + 1 : i \in 1 .. n \/ i = n + 1
  BY <1>1
<1>3. n + 1 \in 1 .. n + 1 /\ 1 .. n \subseteq 1 .. n + 1
  BY <1>1
<1>0. s # <<>> /\ s[n] = Typed => l.kind # "helper"
  OBVIOUS
<1> HIDE DEF a, n
<1>4. Ids(a) = Ids(s) \cup {l.id}
  BY <1>1, <1>2, <1>3 DEF Ids
<1>5. ASSUME NEW i \in DOMAIN a, NEW j \in DOMAIN a, i # j, a[i].id = a[j].id
      PROVE  a[i].id = 0
  BY <1>1, <1>2, <1>5 DEF Apart, Ids
<1>6. ASSUME NEW i \in DOMAIN a, i + 1 \in DOMAIN a, a[i] = Typed
      PROVE  a[i + 1].kind # "helper"
  <2>1. i \in 1 .. n /\ i + 1 \in 1 .. n + 1
    BY <1>1, <1>6
  <2>2. CASE i = n
    BY <1>0, <1>1, <1>6, <2>1, <2>2
  <2>3. CASE i # n
    <3>1. i + 1 \in 1 .. n
      BY <1>1, <2>1, <2>3
    <3> QED
      BY <1>1, <1>6, <2>1, <3>1 DEF Apart
  <2> QED
    BY <2>2, <2>3
<1> QED
  BY <1>1, <1>4, <1>5, <1>6 DEF Apart, a

\* Lines taken from the front leave the others apart.
LEMMA LinesLeft ==
    ASSUME NEW s \in Seq(Line), NEW r \in Seq(Line), NEW n \in 1 .. Len(s), Len(r) = Len(s) - n,
           \A i \in 1 .. Len(r) : r[i] = s[n + i], Apart(s)
    PROVE  /\ Apart(r) /\ Ids(r) \subseteq Ids(s) /\ s[n].id \in Ids(s)
           /\ s[n].id # 0 => s[n].id \notin Ids(r)
           /\ r # <<>> => s # <<>> /\ r[Len(r)] = s[Len(s)]
<1> DEFINE m == Len(s)
           k == Len(r)
<1>1. m \in Nat /\ n \in 1 .. m /\ k \in Nat /\ k = m - n /\ DOMAIN s = 1 .. m
      /\ DOMAIN r = 1 .. k /\ s # <<>> /\ (r # <<>> => k # 0)
  OBVIOUS
<1>2. \A i \in 1 .. k : r[i] = s[n + i]
  OBVIOUS
<1> HIDE DEF m, k
<1>3. \A i \in 1 .. k : n + i \in 1 .. m /\ n # n + i
  BY <1>1
<1>4. \A i, j \in 1 .. k : i # j => n + i # n + j
  BY <1>1
<1>5. \A i \in 1 .. k : i + 1 \in 1 .. k => n + (i + 1) = (n + i) + 1 /\ (n + i) + 1 \in 1 .. m
  BY <1>1
<1>6. Ids(r) \subseteq Ids(s) /\ s[n].id \in Ids(s)
  BY <1>1, <1>2, <1>3 DEF Ids
<1>7. s[n].id # 0 => s[n].id \notin Ids(r)
  <2>1. ASSUME NEW i \in 1 .. k, r[i].id = s[n].id PROVE s[n].id = 0
    <3>1. n \in DOMAIN s /\ n + i \in DOMAIN s /\ n # n + i /\ s[n].id = s[n + i].id
      BY <1>1, <1>2, <1>3, <2>1
    <3> QED
      BY <3>1 DEF Apart
  <2> QED
    BY <1>1, <2>1 DEF Ids
<1>8. ASSUME NEW i \in DOMAIN r, NEW j \in DOMAIN r, i # j, r[i].id = r[j].id PROVE r[i].id = 0
  <2>1. n + i \in DOMAIN s /\ n + j \in DOMAIN s /\ n + i # n + j /\ s[n + i].id = s[n + j].id
    BY <1>1, <1>2, <1>3, <1>4, <1>8
  <2> QED
    BY <1>1, <1>2, <2>1 DEF Apart
<1>9. ASSUME NEW i \in DOMAIN r, i + 1 \in DOMAIN r, r[i] = Typed PROVE r[i + 1].kind # "helper"
  <2>1. n + i \in DOMAIN s /\ (n + i) + 1 \in DOMAIN s /\ s[n + i] = Typed /\ r[i + 1] = s[(n + i) + 1]
    BY <1>1, <1>2, <1>3, <1>5, <1>9
  <2> QED
    BY <2>1 DEF Apart
<1>10. r # <<>> => k \in 1 .. k /\ n + k = m
  BY <1>1
<1> QED
  BY <1>1, <1>2, <1>6, <1>7, <1>8, <1>9, <1>10 DEF Apart, m, k

\* The lines that wait and the one that runs are different lines, and after what
\* was typed comes a line that prints a sentinel.
LineInv ==
    /\ Apart(input)
    /\ current.id # 0 => current.id \notin Ids(input)
    /\ input # <<>> /\ input[Len(input)] = Typed =>
          pending # NoLine \/ (plan # <<>> /\ Head(plan) = "cwd" /\ waiting = NoLine)

\* The lines of the terminal and the one that runs stay apart.
LEMMA IdsMove ==
    ASSUME TypeInv, LineInv, InputMove, Types'
    PROVE  /\ Apart(input') /\ (current'.id # 0 => current'.id \notin Ids(input'))
           /\ Ids(input') \subseteq Ids(input) \cup {0} \cup {sent + 1, sent + 2}
           /\ current'.id \in {current.id, 0} \cup Ids(input)
<1> USE DEF LineInv
<1>0. /\ input \in Seq(Line) /\ sent \in Nat /\ Apart(input) /\ (current.id # 0 => current.id \notin Ids(input))
      /\ NoLine.id = 0 /\ Typed.id = 0 /\ Typed \in Line /\ Typed.kind # "helper" /\ Apart(<<>>) /\ Ids(<<>>) = {}
  BY DEF TypeInv, Types, NoLine, Typed, Line, Kinds, Apart, Ids
<1>a. \A i \in Ids(input) \cup {current.id} : i # sent + 1 /\ i # sent + 2
  <2>0. \A i \in DOMAIN input : input[i] \in Line
    BY DEF TypeInv, Types
  <2>1. \A i \in DOMAIN input : input[i].id \in Nat /\ input[i].id <= sent
    BY <2>0 DEF TypeInv, Numbers, Line
  <2>2. current.id \in Nat /\ current.id <= sent
    BY DEF TypeInv, Types, Numbers, Line
  <2> QED
    BY <1>0, <2>1, <2>2 DEF Ids
<1>1. CASE input' = input /\ current' \in {NoLine, current}
  BY <1>0, <1>1
<1>2. CASE input' = <<>> /\ current' \in {NoLine, current}
  BY <1>0, <1>2
<1>3. ASSUME NEW line \in Line, Written(line)
      PROVE  /\ Apart(input') /\ (current'.id # 0 => current'.id \notin Ids(input'))
             /\ Ids(input') \subseteq Ids(input) \cup {0} \cup {sent + 1, sent + 2}
             /\ current'.id \in {current.id, 0} \cup Ids(input)
  <2>1. line.id = sent + 1 /\ input' = Append(input, line) /\ current' = current
    BY <1>3 DEF Written
  <2>2. ASSUME line.kind = "helper", input # <<>>, input[Len(input)] = Typed PROVE FALSE
    BY <1>3, <2>2 DEF Written, TypeInv, Control
  <2>3. Apart(Append(input, line)) /\ Ids(Append(input, line)) = Ids(input) \cup {line.id}
    BY <1>0, <1>a, <2>1, <2>2, LineBehind
  <2> QED
    BY <1>0, <1>a, <2>1, <2>3
<1>4. CASE WrittenTwo
  <2> DEFINE h == New(1, "helper")
             v == New(2, "verify")
  <2>1. h \in Line /\ h.id = sent + 1 /\ h.kind = "helper" /\ v \in Line /\ v.id = sent + 2 /\ v.kind = "verify"
    BY <1>0, LinesTwo
  <2>2. input' = Append(Append(input, h), v) /\ current' = current
    BY <1>4 DEF WrittenTwo
  <2>3. ~ (input # <<>> /\ input[Len(input)] = Typed)
    BY <1>4 DEF WrittenTwo
  <2> HIDE DEF h, v
  <2>4. Append(input, h) \in Seq(Line) /\ Apart(Append(input, h)) /\ Ids(Append(input, h)) = Ids(input) \cup {h.id}
    BY <1>0, <1>a, <2>1, <2>3, LineBehind
  <2>5. v.id \notin Ids(Append(input, h))
    BY <1>0, <1>a, <2>1, <2>4
  <2>6. /\ Apart(Append(Append(input, h), v))
        /\ Ids(Append(Append(input, h), v)) = Ids(Append(input, h)) \cup {v.id}
    BY <2>1, <2>4, <2>5, LineBehind
  <2> QED
    BY <1>0, <1>a, <2>1, <2>2, <2>4, <2>6
<1>5. CASE input' = Append(input, Typed) /\ current' = current
  <2>1. Apart(Append(input, Typed)) /\ Ids(Append(input, Typed)) = Ids(input) \cup {Typed.id}
    BY <1>0, LineBehind
  <2> QED
    BY <1>0, <1>5, <2>1
<1>6. CASE Started
  <2>1. PICK n \in 1 .. 2 :
             /\ n <= Len(input) /\ input' \in Seq(Line) /\ Len(input') = Len(input) - n
             /\ \A i \in 1 .. Len(input') : input'[i] = input[n + i]
             /\ current'.id = input[n].id
    BY <1>6, StartedLines DEF TypeInv
  <2>2. n \in 1 .. Len(input)
    BY <1>0, <2>1
  <2>3. /\ Apart(input') /\ Ids(input') \subseteq Ids(input) /\ input[n].id \in Ids(input)
        /\ input[n].id # 0 => input[n].id \notin Ids(input')
    BY <1>0, <2>1, <2>2, LinesLeft
  <2> QED
    BY <2>1, <2>3
<1> QED
  BY <1>1, <1>2, <1>3, <1>4, <1>5, <1>6 DEF InputMove

\* What is typed to a command stays last until the command is over and the next
\* question is written.
LEMMA TypedMove ==
    ASSUME TypeInv, LineInv, Moves, TypeInv', input' # <<>>, input'[Len(input')] = Typed
    PROVE  pending' # NoLine \/ (plan' # <<>> /\ Head(plan') = "cwd" /\ waiting' = NoLine)
<1> DEFINE Last1 == input # <<>> /\ input[Len(input)] = Typed
           Held == pending # NoLine \/ (plan # <<>> /\ Head(plan) = "cwd" /\ waiting = NoLine)
<1>0. Last1 => Held
  BY DEF LineInv
<1>r. CASE ReadCommandOutput
  <2>1. pending # NoLine /\ waiting' = waiting /\ (pending' = pending \/ plan' = AfterCommand(pending))
    BY <1>r, ReadEffect DEF TypeInv
  <2>2. waiting = NoLine
    BY <2>1 DEF TypeInv, Control
  <2>3. AfterCommand(pending) # <<>> /\ Head(AfterCommand(pending)) = "cwd"
    BY PlansMade, Tails
  <2> QED
    BY <2>1, <2>2, <2>3
<1>1. Last1 \/ (pending # NoLine /\ pending' = pending) \/ ReadCommandOutput
  <2>0. input \in Seq(Line) /\ sent \in Nat
    BY DEF TypeInv, Types
  <2>1. CASE input' = input
    BY <2>1
  <2>2. ASSUME NEW line \in Line, Written(line) PROVE FALSE
    <3>1. Append(input, line)[Len(Append(input, line))] = line
      BY <2>0, Behind
    <3> QED
      BY <2>2, <3>1 DEF Written, Typed
  <2>3. CASE WrittenTwo
    <3>1. New(1, "helper") \in Line /\ New(2, "verify") \in Line /\ New(2, "verify").kind = "verify"
      BY <2>0, LinesTwo
    <3>2. Append(input, New(1, "helper")) \in Seq(Line)
      BY <2>0, <3>1, Behind
    <3>3. input'[Len(input')] = New(2, "verify")
      BY <2>3, <3>1, <3>2, Behind DEF WrittenTwo
    <3> QED
      BY <3>1, <3>3 DEF Typed
  <2>4. CASE Started
    <3>1. PICK n \in 1 .. 2 :
             /\ n <= Len(input) /\ input' \in Seq(Line) /\ Len(input') = Len(input) - n
             /\ \A i \in 1 .. Len(input') : input'[i] = input[n + i]
      BY <2>4, StartedLines DEF TypeInv
    <3>2. n \in 1 .. Len(input)
      BY <2>0, <3>1
    <3>3. input # <<>> /\ input'[Len(input')] = input[Len(input)]
      BY <2>0, <3>1, <3>2, LinesLeft DEF LineInv
    <3> QED
      BY <3>3
  <2> QED
    BY <2>1, <2>2, <2>3, <2>4, InputMoves DEF InputMove
<1> SUFFICES ASSUME Last1 PROVE pending' # NoLine \/ (plan' # <<>> /\ Head(plan') = "cwd" /\ waiting' = NoLine)
  BY <1>1, <1>r
<1>2. Held /\ input # <<>> /\ alive
  BY <1>0 DEF TypeInv, Control
<1>3. /\ pending # NoLine => waiting = NoLine /\ plan = <<>>
      /\ pending = NoLine => waiting = NoLine /\ plan # <<>> /\ Head(plan) = "cwd"
  BY <1>2 DEF TypeInv, Control
<1> HIDE DEF Last1, Held
<1>4. ~ (StartCommand \/ CtrlCAtPrompt \/ PressTab \/ ResetEngine)
  BY <1>3 DEF StartCommand, CtrlCAtPrompt, PressTab, ResetEngine, Free
<1>6. ~ (CtrlCRunning \/ ActivityTimeout)
  BY DEF CtrlCRunning, ActivityTimeout, Abandon, Interrupt
<1>7. CASE ForwardKey
  BY <1>7 DEF ForwardKey, clientVars
<1>8. ~ (WriteHelper \/ AwaitOver \/ PollInit)
  BY <1>3 DEF WriteHelper, AwaitOver, PollInit, Polls
<1>9. ~ Execute
  <2> SUFFICES ASSUME Execute PROVE FALSE
    OBVIOUS
  <2>1. Head(plan) = "cwd" /\ input' = Append(input, New(1, Head(plan)))
    BY <1>2, <1>3, ExecuteEffect DEF TypeInv, Control
  <2>2. New(1, "cwd") \in Line /\ New(1, "cwd").kind = "cwd" /\ input \in Seq(Line)
    BY Newed DEF Kinds, TypeInv, Types
  <2>3. input'[Len(input')] = New(1, "cwd")
    BY <2>1, <2>2, Behind
  <2> QED
    BY <2>2, <2>3 DEF Typed
<1>10. ~ (ReadChunk \/ ExecuteTimeout)
  BY <1>3 DEF ReadChunk, ExecuteTimeout
<1>11. CASE BashStep /\ UNCHANGED clientVars
  BY <1>3, <1>11 DEF clientVars
<1> QED
  BY <1>r, <1>4, <1>6, <1>7, <1>8, <1>9, <1>10, <1>11 DEF Moves

\* Steps keep the lines apart.
LEMMA LineStep ==
    ASSUME TypeInv, LineInv, Moves
    PROVE  LineInv'
<1>1. TypeInv' /\ InputMove
  BY TypeStep, InputMoves
<1>2. /\ Apart(input') /\ (current'.id # 0 => current'.id \notin Ids(input'))
  BY <1>1, IdsMove DEF TypeInv
<1>3. input' # <<>> /\ input'[Len(input')] = Typed =>
        pending' # NoLine \/ (plan' # <<>> /\ Head(plan') = "cwd" /\ waiting' = NoLine)
  BY <1>1, TypedMove
<1>4. (Apart(input))' /\ (Ids(input))' = Ids(input')
  BY <1>2 DEF Ids
<1> QED
  BY <1>2, <1>3, <1>4 DEF LineInv

----------------------------------------------------------------------------
(* What a step does to the channel.                                        *)

\* Whoever waits for a line, and whatever may turn up in another's reading.
Own == loose \cup {pending.id, waiting.id, engine.line}

\* Something is printed: the rest of the state is as it was.
Printed(token) ==
    /\ out' = Append(out, token) /\ token \in Token
    /\ input' = input /\ loose' = loose /\ UNCHANGED clientVars

\* What the line that runs prints next, and its sentinel.
NextSaid == Text(current, IF current.kind = "cwd" THEN dir ELSE NextText)
LastSaid == End(current, printed)

\* The client reads.
Reads == ReadCommandOutput \/ CtrlCRunning \/ ActivityTimeout \/ ReadChunk \/ PollInit

\* What a step does to the channel: it is read from the front, or one token is put behind.
OutMove ==
    \/ out' = out
    \/ Reads /\ \E n \in 0 .. Len(out) : out' = SubSeq(out, n + 1, Len(out))
    \/ /\ current # NoLine /\ (printed = 0 \/ current.kind = "user") /\ current.kind \notin Silent
       /\ printed' = NextText /\ current' = current /\ Printed(NextSaid) /\ dir' = dir
    \/ /\ current # NoLine /\ current.kind \notin NoSentinel /\ (current.kind = "cwd" => printed # 0) /\ printed' = printed
       /\ Printed(LastSaid) /\ current' = NoLine /\ dir' = dir
    \/ /\ \E j \in jobs : Printed([of |-> j, what |-> "text", val |-> 0])
       /\ current' = current /\ printed' = printed

\* Every step does one of these.
LEMMA OutMoves ==
    ASSUME TypeInv, Moves
    PROVE  OutMove
<1> USE DEF OutMove
<1>0. current \in Line /\ dir \in Nat /\ out \in Seq(Token) /\ printed \in Nat /\ MaxPrints \in Nat
      /\ \A j \in jobs : j \in Nat
  <2>1. sent \in Nat /\ jobs \subseteq 0 .. sent
    BY DEF TypeInv, Types, Numbers
  <2>2. \A j \in jobs : j \in Nat
    BY <2>1
  <2> QED
    BY <2>2, PtyAssumption DEF TypeInv, Types
<1>a. <<>> = SubSeq(out, Len(out) + 1, Len(out)) /\ Len(out) \in 0 .. Len(out)
  BY <1>0
<1>b. \A n \in 1 .. Len(out) : n \in 0 .. Len(out)
  BY <1>0
<1>1. CASE out' = out
  BY <1>1
<1>2. CASE ReadCommandOutput \/ PollInit
  <2>1. out' = <<>>
    BY <1>2 DEF ReadCommandOutput, PollInit
  <2> QED
    BY <1>a, <1>2, <2>1 DEF Reads
<1>3. CASE CtrlCRunning \/ ActivityTimeout
  <2>1. \E n \in 0 .. Len(out) : out' = SubSeq(out, n + 1, Len(out))
    BY <1>3 DEF CtrlCRunning, ActivityTimeout, Abandon
  <2> QED
    BY <1>3, <2>1 DEF Reads
<1>4. CASE ReadChunk
  <2>1. \E n \in 0 .. Len(out) : out' = SubSeq(out, n + 1, Len(out))
    BY <1>b, <1>4 DEF ReadChunk
  <2> QED
    BY <1>4, <2>1 DEF Reads
<1>5. CASE PrintText /\ UNCHANGED clientVars
  <2>1. NextSaid \in Token
    BY <1>0 DEF NextSaid, NextText, Text, Token, Line
  <2> QED
    BY <1>5, <2>1 DEF PrintText, PrintsOn, Printed, NextSaid
<1>6. CASE EndLine /\ UNCHANGED clientVars
  <2>1. LastSaid \in Token
    BY <1>0 DEF LastSaid, End, Token, Line
  <2> QED
    BY <1>6, <2>1 DEF EndLine, Printed, LastSaid
<1>7. CASE JobPrints /\ UNCHANGED clientVars
  <2>1. \A j \in jobs : [of |-> j, what |-> "text", val |-> 0] \in Token
    BY <1>0 DEF Token
  <2> QED
    BY <1>7, <2>1 DEF JobPrints, Printed
<1>8. StartCommand \/ CtrlCAtPrompt \/ ForwardKey \/ WriteHelper \/ Execute \/ ExecuteTimeout \/ PressTab
      \/ AwaitOver \/ ResetEngine \/ StartLine \/ LeaveJob \/ BashDies => out' = out
  BY DEF StartCommand, CtrlCAtPrompt, ForwardKey, WriteHelper, Execute, ExecuteTimeout, PressTab, AwaitOver, ResetEngine,
         StartLine, Run, LeaveJob, BashDies, bashVars
<1> QED
  BY <1>1, <1>2, <1>3, <1>4, <1>5, <1>6, <1>7, <1>8 DEF Moves, BashStep

\* Every line nobody reads any more is loose, and of the others the sentinel is
\* the last that comes.
StreamInv ==
    /\ \A id \in Nat \ loose : SpentIn(out, id) /\ (Ended(out, id) => id # current.id /\ id \notin Ids(input))
    /\ Of(out) \subseteq Own /\ Of(acc) \subseteq Own /\ Of(buf) \subseteq Own
    /\ current.kind # "helper" => current.id \in Own
    /\ \A i \in DOMAIN input : input[i].kind # "helper" => input[i].id \in Own
    /\ pending # NoLine => ~ Ended(acc, pending.id)
    /\ waiting # NoLine => ~ Ended(buf, waiting.id)

\* Who reads what.
LEMMA Reading ==
    ASSUME TypeInv, Moves
    PROVE  Of(acc') \subseteq Of(acc) \cup Of(out) /\ Of(buf') \subseteq Of(buf) \cup Of(out)
<1>0. Of(<<>>) = {} /\ acc \in Seq(Token) /\ out \in Seq(Token) /\ buf \in Seq(Token)
  BY DEF Of, TypeInv, Types
<1>1. CASE ReadCommandOutput
  <2>1. acc \o out \in Seq(Token) /\ Of(acc \o out) = Of(acc) \cup Of(out)
    BY <1>0, TokensBehind
  <2>2. \A n \in 0 .. Len(acc \o out) : Of(Kept(n)) \subseteq Of(acc) \cup Of(out)
    BY <2>1, TokensLeft DEF Kept
  <2>3. \E n \in 0 .. Len(acc \o out) : acc' \in {<<>>, Kept(n)}
    <3>1. \A n \in 0 .. Len(acc \o out) - 1 : n \in 0 .. Len(acc \o out)
      BY <2>1
    <3> QED
      BY <1>1, <3>1, ReadEffect DEF TypeInv
  <2>4. buf' = buf
    BY <1>1, ReadEffect DEF TypeInv
  <2> QED
    BY <1>0, <2>2, <2>3, <2>4
<1>2. CASE ReadChunk
  <2>1. PICK n \in 1 .. Len(out) :
         LET tokens == buf \o SubSeq(out, 1, n) IN
         IF Ended(tokens, waiting.id) THEN Return(tokens, TRUE)
         ELSE buf' = tokens /\ UNCHANGED <<plan, waiting, cwd, candidates, engine>>
    BY <1>2 DEF ReadChunk
  <2>2. buf' = <<>> \/ buf' = buf \o SubSeq(out, 1, n)
    BY <2>1 DEF Return
  <2>3. acc' = acc
    BY <1>2 DEF ReadChunk
  <2>4. n \in 0 .. Len(out)
    BY <1>0
  <2>5. SubSeq(out, 1, n) \in Seq(Token) /\ Of(SubSeq(out, 1, n)) \subseteq Of(out)
    BY <1>0, <2>4, TokensLeft
  <2>6. Of(buf \o SubSeq(out, 1, n)) = Of(buf) \cup Of(SubSeq(out, 1, n))
    BY <1>0, <2>5, TokensBehind
  <2> QED
    BY <1>0, <2>2, <2>3, <2>5, <2>6
<1>3. ~ (ReadCommandOutput \/ ReadChunk) => acc' \in {acc, <<>>} /\ buf' \in {buf, <<>>}
  BY DEF Moves, StartCommand, CtrlCRunning, ActivityTimeout, Abandon, CtrlCAtPrompt,
         ForwardKey, WriteHelper, Execute,
         ExecuteTimeout, Return, PollInit, PressTab, AwaitOver, ResetEngine, clientVars
<1> QED
  BY <1>0, <1>1, <1>2, <1>3

\* What is given up without becoming loose has ended, and all of it is read.
LEMMA GivenUp ==
    ASSUME TypeInv, StreamInv, Moves, NEW id \in Own, id \notin Own'
    PROVE  id \in Nat \ loose /\ Ended(out, id) /\ id \notin Of(out') /\ id \notin Of(acc') /\ id \notin Of(buf')
<1>0. /\ 0 \in loose /\ loose \subseteq loose' /\ NoLine.id = 0 /\ Of(<<>>) = {}
      /\ out \in Seq(Token) /\ acc \in Seq(Token) /\ buf \in Seq(Token)
      /\ pending.id \in Nat /\ waiting.id \in Nat /\ engine.line \in Nat
  BY ClientMoves DEF TypeInv, Types, Numbers, Line, NoLine, Of, Loosened
<1>1. id \in {pending.id, waiting.id, engine.line} /\ id \notin loose /\ id \notin loose' /\ id \in Nat
  BY <1>0 DEF Own
<1>2. /\ id = pending.id => pending # NoLine /\ pending'.id # id
      /\ id = waiting.id => waiting # NoLine /\ waiting'.id # id
      /\ id = engine.line => InProgress /\ engine'.line # id
  BY <1>0, <1>1 DEF Own, TypeInv, Numbers
<1>3. /\ pending # NoLine => waiting = NoLine /\ buf = <<>> /\ engine.line # id
      /\ waiting # NoLine => pending = NoLine /\ acc = <<>> /\ engine.line # id /\ plan # <<>> /\ Head(plan) # "await"
  BY <1>1, <1>2 DEF TypeInv, Control
<1>4. CASE ReadCommandOutput
  <2>1. waiting' = waiting /\ engine' = engine /\ buf' = buf /\ out' = <<>>
    BY <1>4, ReadEffect DEF TypeInv
  <2>2. id = pending.id /\ pending # NoLine
    BY <1>1, <1>2, <2>1
  <2>3. Ended(acc \o out, id) /\ acc' = <<>>
    <3>1. acc \o out \in Seq(Token) /\ \A n \in 0 .. Len(acc \o out) - 1 : n \in 0 .. Len(acc \o out)
      BY <1>0, TokensBehind
    <3>2. PICK n \in 0 .. Len(acc \o out) - 1 : Ended(Kept(n), pending.id) /\ acc' = <<>>
      BY <1>2, <1>4, <2>2, ReadEffect DEF TypeInv
    <3> QED
      BY <2>2, <3>1, <3>2, TokensLeft DEF Kept
  <2>4. Ended(out, id)
    BY <1>0, <2>2, <2>3, TokensBehind DEF StreamInv
  <2> QED
    BY <1>0, <1>1, <1>3, <2>1, <2>2, <2>3, <2>4
<1>5. CASE ReadChunk
  <2>1. pending' = pending /\ acc' = acc /\ waiting # NoLine
    BY <1>5 DEF ReadChunk
  <2>2. id = waiting.id
    BY <1>1, <1>2, <1>3, <2>1
  <2>3. PICK n \in 1 .. Len(out) :
         LET tokens == buf \o SubSeq(out, 1, n) IN
         /\ out' = SubSeq(out, n + 1, Len(out))
         /\ IF Ended(tokens, waiting.id) THEN Return(tokens, TRUE)
            ELSE buf' = tokens /\ UNCHANGED <<plan, waiting, cwd, candidates, engine>>
    BY <1>5 DEF ReadChunk
  <2>4. n \in 0 .. Len(out)
    BY <1>0
  <2>5. Ended(buf \o SubSeq(out, 1, n), id) /\ buf' = <<>>
    BY <1>2, <2>2, <2>3 DEF Return
  <2>6. SubSeq(out, 1, n) \in Seq(Token)
    BY <1>0, <2>4, TokensLeft
  <2>7. Ended(SubSeq(out, 1, n), id)
    BY <1>0, <2>1, <2>2, <2>5, <2>6, TokensBehind DEF StreamInv
  <2>8. SpentIn(out, id)
    BY <1>1 DEF StreamInv
  <2>9. Ended(out, id) /\ id \notin Of(out')
    BY <1>0, <2>3, <2>4, <2>7, <2>8, TokensLeft
  <2> QED
    BY <1>0, <1>1, <1>3, <2>1, <2>5, <2>9
<1>6. CASE PollInit
  <2>1. /\ pending' = pending /\ acc' = acc /\ cut' = cut /\ waiting' = waiting /\ buf' = buf /\ out' = <<>>
        /\ pending = NoLine /\ (plan # <<>> => Head(plan) = "await")
    BY <1>6 DEF PollInit, Polls
  <2>2. waiting = NoLine /\ buf = <<>> /\ acc = <<>>
    BY <1>3, <2>1 DEF TypeInv, Control
  <2>3. id = engine.line
    BY <1>1, <1>2, <2>1
  <2>4. engine' # engine
    BY <1>2, <2>3
  <2>5. Ended(out, id)
    BY <1>6, <2>3, <2>4, PollEffect DEF TypeInv
  <2> QED
    BY <1>0, <1>1, <2>1, <2>2, <2>5
<1>7. ~ (CtrlCRunning \/ ActivityTimeout)
  <2> SUFFICES ASSUME CtrlCRunning \/ ActivityTimeout PROVE FALSE
    OBVIOUS
  <2>1. pending.id \in loose' /\ waiting' = waiting /\ engine' = engine
    BY DEF CtrlCRunning, ActivityTimeout, Abandon
  <2> QED
    BY <1>1, <1>2, <2>1
<1>8. ~ ExecuteTimeout
  <2> SUFFICES ASSUME ExecuteTimeout PROVE FALSE
    OBVIOUS
  <2>1. waiting.id \in loose' /\ pending' = pending /\ waiting # NoLine
    BY DEF ExecuteTimeout
  <2> QED
    BY <1>1, <1>2, <1>3, <2>1
<1>9. ~ (StartCommand \/ ResetEngine)
  <2> SUFFICES ASSUME StartCommand \/ ResetEngine PROVE FALSE
    OBVIOUS
  <2>1. pending = NoLine /\ waiting' = waiting
    BY DEF StartCommand, ResetEngine, Free
  <2>2. id = engine.line /\ InProgress /\ engine' # engine
    BY <1>1, <1>2, <2>1
  <2>3. ResetEngine
    BY <2>2 DEF StartCommand
  <2>4. engine.line \in loose'
    BY <2>2, <2>3 DEF ResetEngine, Overrun
  <2> QED
    BY <1>1, <2>2, <2>4
<1>10. ~ Execute
  <2> SUFFICES ASSUME Execute PROVE FALSE
    OBVIOUS
  <2>1. pending' = pending /\ engine' = engine /\ waiting = NoLine
    BY DEF Execute
  <2> QED
    BY <1>1, <1>2, <2>1
<1>11. ~ (CtrlCAtPrompt \/ ForwardKey \/ WriteHelper \/ PressTab \/ AwaitOver \/ UNCHANGED clientVars)
  <2> SUFFICES ASSUME CtrlCAtPrompt \/ ForwardKey \/ WriteHelper \/ PressTab \/ AwaitOver \/ UNCHANGED clientVars PROVE FALSE
    OBVIOUS
  <2>1. pending' = pending /\ waiting' = waiting /\ engine' = engine
    BY DEF CtrlCAtPrompt, ForwardKey, WriteHelper, PressTab, AwaitOver, clientVars
  <2> QED
    BY <1>1, <1>2, <2>1
<1> QED
  BY <1>4, <1>5, <1>6, <1>7, <1>8, <1>9, <1>10, <1>11 DEF Moves

\* Steps keep a line's output together, and all output with who reads it.
LEMMA StreamStep ==
    ASSUME TypeInv, LineInv, StreamInv, Moves
    PROVE  StreamInv'
<1>0. /\ TypeInv' /\ LineInv' /\ InputMove /\ Engaged /\ Loosened /\ OutMove
      /\ out \in Seq(Token) /\ sent \in Nat /\ current \in Line /\ input \in Seq(Line) /\ current.id \in Nat
      /\ 0 \in loose /\ loose \subseteq loose' /\ loose \subseteq 0 .. sent /\ jobs \subseteq loose
  BY TypeStep, LineStep, InputMoves, ClientMoves, OutMoves DEF TypeInv, Types, Numbers, Line, Loosened
<1>a. /\ Ids(input') \subseteq Ids(input) \cup {0} \cup {sent + 1, sent + 2}
      /\ current'.id \in {current.id, 0} \cup Ids(input)
  BY <1>0, IdsMove DEF TypeInv
<1>b. Own \subseteq 0 .. sent
  <2>1. pending.id \in 0 .. sent /\ waiting.id \in 0 .. sent /\ engine.line \in 0 .. sent
    BY <1>0 DEF TypeInv, Types, Numbers, Line
  <2> QED
    BY <1>0, <2>1 DEF Own
<1>c. NoLine.id = 0 /\ NoLine.kind = "none"
  BY DEF NoLine
<1>d. ASSUME NEW token \in Token, Printed(token), NEW id
      PROVE  /\ Of(out') = Of(out) \cup {token.of}
             /\ Ended(out', id) => Ended(out, id) \/ (token.of = id /\ token.what = "end")
             /\ SpentIn(out, id) /\ ~ (Ended(out, id) /\ token.of = id) => SpentIn(out', id)
  BY <1>0, <1>d, TokenBehind DEF Printed
<1>e. \A id : Ended(out, id) => id \in Of(out)
  BY DEF Ended, Of
\* What the channel then holds, and from where.
<1>1. ASSUME NEW id \in Nat \ loose
      PROVE  SpentIn(out', id) /\ (Ended(out', id) => id # current'.id /\ id \notin Ids(input'))
  <2>0. SpentIn(out, id) /\ (Ended(out, id) => id # current.id /\ id \notin Ids(input))
    BY <1>1 DEF StreamInv
  <2>1. Ended(out, id) => id # current'.id /\ id \notin Ids(input')
    <3>1. Ended(out, id) => id \in 0 .. sent /\ id # 0 /\ id # sent + 1 /\ id # sent + 2
      BY <1>0, <1>1, <1>b, <1>e DEF StreamInv
    <3> QED
      BY <1>a, <2>0, <3>1
  <2>2. CASE out' = out
    BY <2>0, <2>1, <2>2
  <2>3. CASE \E n \in 0 .. Len(out) : out' = SubSeq(out, n + 1, Len(out))
    <3>1. SpentIn(out', id) /\ (Ended(out', id) => Ended(out, id))
      BY <1>0, <2>0, <2>3, TokensLeft
    <3> QED
      BY <2>1, <3>1
  <2>4. CASE Printed(NextSaid)
    <3>1. NextSaid \in Token /\ NextSaid.of = current.id /\ NextSaid.what = "text"
      BY <2>4 DEF Printed, NextSaid, Text
    <3>2. Ended(out', id) => Ended(out, id)
      BY <1>d, <2>4, <3>1
    <3>3. SpentIn(out', id)
      BY <1>d, <2>0, <2>4, <3>1
    <3> QED
      BY <2>1, <3>2, <3>3
  <2>5. CASE current # NoLine /\ Printed(LastSaid) /\ current' = NoLine
    <3> DEFINE t == LastSaid
    <3>1. t \in Token /\ t.of = current.id /\ Printed(t)
      BY <2>5 DEF Printed, LastSaid, End
    <3> HIDE DEF t
    <3>2. Ended(out', id) => Ended(out, id) \/ id = current.id
      BY <1>d, <3>1
    <3>3. SpentIn(out', id)
      BY <1>d, <2>0, <3>1
    <3>4. id = current.id => id # current'.id /\ id \notin Ids(input')
      <4>1. input' = input
        BY <2>5 DEF Printed
      <4>2. id # 0
        BY <1>0, <1>1
      <4> QED
        BY <1>c, <2>5, <4>1, <4>2 DEF LineInv
    <3> QED
      BY <2>1, <3>2, <3>3, <3>4
  <2>6. CASE \E j \in jobs : Printed([of |-> j, what |-> "text", val |-> 0])
    <3>1. PICK j \in jobs : Printed([of |-> j, what |-> "text", val |-> 0])
      BY <2>6
    <3> DEFINE t == [of |-> j, what |-> "text", val |-> 0]
    <3>2. t \in Token /\ t.of = j /\ t.what = "text" /\ Printed(t)
      BY <3>1 DEF Printed
    <3> HIDE DEF t
    <3>3. Ended(out', id) => Ended(out, id)
      BY <1>d, <3>2
    <3>4. SpentIn(out', id)
      BY <1>0, <1>1, <1>d, <2>0, <3>2
    <3> QED
      BY <2>1, <3>3, <3>4
  <2> QED
    BY <1>0, <2>2, <2>3, <2>4, <2>5, <2>6 DEF OutMove
<1>2. Of(out') \subseteq Own \cup Own'
  <2>0. Of(out) \subseteq Own
    BY DEF StreamInv
  <2>1. CASE out' = out
    BY <2>0, <2>1
  <2>2. CASE \E n \in 0 .. Len(out) : out' = SubSeq(out, n + 1, Len(out))
    <3>1. Of(out') \subseteq Of(out)
      BY <1>0, <2>2, TokensLeft
    <3> QED
      BY <2>0, <3>1
  <2>3. CASE current.kind \notin Silent /\ Printed(NextSaid)
    <3>1. NextSaid \in Token /\ NextSaid.of = current.id
      BY <2>3 DEF Printed, NextSaid, Text
    <3>2. current.id \in Own
      BY <2>3 DEF StreamInv, Silent
    <3> QED
      BY <1>d, <2>0, <2>3, <3>1, <3>2
  <2>4. CASE current.kind \notin NoSentinel /\ Printed(LastSaid)
    <3> DEFINE t == LastSaid
    <3>1. t \in Token /\ t.of = current.id /\ Printed(t)
      BY <2>4 DEF Printed, LastSaid, End
    <3> HIDE DEF t
    <3>2. current.id \in Own
      BY <2>4 DEF StreamInv, NoSentinel
    <3> QED
      BY <1>d, <2>0, <3>1, <3>2
  <2>5. CASE \E j \in jobs : Printed([of |-> j, what |-> "text", val |-> 0])
    <3>1. PICK j \in jobs : Printed([of |-> j, what |-> "text", val |-> 0])
      BY <2>5
    <3> DEFINE t == [of |-> j, what |-> "text", val |-> 0]
    <3>2. t \in Token /\ t.of = j /\ Printed(t)
      BY <3>1 DEF Printed
    <3> HIDE DEF t
    <3> QED
      BY <1>0, <1>d, <2>0, <3>2 DEF Own
  <2> QED
    BY <1>0, <2>1, <2>2, <2>3, <2>4, <2>5 DEF OutMove
<1>3. Of(out') \subseteq Own' /\ Of(acc') \subseteq Own' /\ Of(buf') \subseteq Own'
  <2>1. Of(acc') \subseteq Own /\ Of(buf') \subseteq Own
    BY Reading DEF StreamInv
  <2> QED
    BY <1>2, <2>1, GivenUp
\* What bash still runs is waited for or loose.
<1>4. ASSUME NEW id \in Own, id \in {current'.id} \cup Ids(input')
      PROVE  id \in Own'
  <2> SUFFICES ASSUME id \notin Own' PROVE FALSE
    OBVIOUS
  <2>1. id \in Nat \ loose /\ Ended(out, id)
    BY GivenUp
  <2>2. id # current.id /\ id \notin Ids(input) /\ id # 0
    BY <1>0, <2>1 DEF StreamInv
  <2>3. id \in 0 .. sent
    BY <1>b
  <2>4. id # sent + 1 /\ id # sent + 2
    BY <1>0, <2>3
  <2> QED
    BY <1>4, <1>a, <2>2, <2>4
<1> DEFINE Known(l) == l.kind # "helper" => l.id \in Own \cup Own'
<1>f. Known(current) /\ Known(NoLine) /\ Known(Typed) /\ \A i \in 1 .. Len(input) : Known(input[i])
  BY <1>0, <1>c DEF StreamInv, Own, Typed
<1>g. \A line \in Line : line.kind = "helper" \/ line.id \in {pending'.id, waiting'.id, engine'.line} => Known(line)
  BY DEF Own
<1>5. Known(current') /\ \A i \in 1 .. Len(input') : Known(input'[i])
  <2> HIDE DEF Known
  <2>1. CASE input' \in {input, <<>>} /\ current' \in {NoLine, current}
    BY <1>f, <2>1
  <2>2. ASSUME NEW line \in Line, Written(line)
        PROVE  Known(current') /\ \A i \in 1 .. Len(input') : Known(input'[i])
    <3>1. Known(line) /\ current' = current /\ input' = Append(input, line)
      BY <1>g, <2>2 DEF Written
    <3> QED
      BY <1>0, <1>f, <3>1, Behind
  <2>3. CASE WrittenTwo
    <3> DEFINE h == New(1, "helper")
               v == New(2, "verify")
    <3>1. h \in Line /\ h.kind = "helper" /\ v \in Line /\ v.id = sent + 2
      BY <1>0, LinesTwo
    <3>2. input' = Append(Append(input, h), v) /\ current' = current /\ engine'.line = sent + 2
      BY <2>3 DEF WrittenTwo
    <3> HIDE DEF h, v
    <3>3. Known(h) /\ Known(v)
      BY <1>g, <3>1, <3>2
    <3>4. Append(input, h) \in Seq(Line) /\ \A i \in 1 .. Len(Append(input, h)) : Known(Append(input, h)[i])
      BY <1>0, <1>f, <3>1, <3>3, Behind
    <3>5. \A i \in 1 .. Len(Append(Append(input, h), v)) : Known(Append(Append(input, h), v)[i])
      BY <3>1, <3>3, <3>4, Behind
    <3> QED
      BY <1>f, <3>2, <3>5
  <2>4. CASE input' = Append(input, Typed) /\ current' = current
    <3>1. Typed \in Line
      BY DEF Typed, Line, Kinds
    <3> QED
      BY <1>0, <1>f, <2>4, <3>1, Behind
  <2>5. CASE Started
    <3>1. PICK n \in 1 .. 2 :
             /\ n <= Len(input) /\ input' \in Seq(Line) /\ Len(input') = Len(input) - n
             /\ \A i \in 1 .. Len(input') : input'[i] = input[n + i]
             /\ current'.id = input[n].id
             /\ n = 1 => current' = input[1]
             /\ n = 2 => input[1] = Typed
      BY <2>5, StartedLines DEF TypeInv
    <3>2. \A i \in 1 .. Len(input') : n + i \in 1 .. Len(input)
      BY <1>0, <3>1
    <3>3. \A i \in 1 .. Len(input') : Known(input'[i])
      BY <1>f, <3>1, <3>2
    <3>4. n = 2 => input[2].kind # "helper" /\ input[2].id \in Own \cup Own'
      <4>1. n = 2 => 1 \in DOMAIN input /\ 1 + 1 \in DOMAIN input /\ 1 + 1 = 2 /\ 2 \in 1 .. Len(input)
        BY <1>0, <3>1
      <4>2. n = 2 => input[2].kind # "helper"
        BY <3>1, <4>1 DEF LineInv, Apart
      <4> QED
        BY <1>f, <4>1, <4>2 DEF Known
    <3>5. n = 1 => Known(current')
      <4>1. 1 \in 1 .. Len(input)
        BY <1>0, <3>1
      <4> QED
        BY <1>f, <3>1, <4>1
    <3>6. n = 2 => Known(current')
      BY <3>1, <3>4 DEF Known
    <3> QED
      BY <3>3, <3>5, <3>6
  <2> QED
    BY <1>0, <2>1, <2>2, <2>3, <2>4, <2>5 DEF InputMove
<1>6. /\ current'.kind # "helper" => current'.id \in Own'
      /\ \A i \in DOMAIN input' : input'[i].kind # "helper" => input'[i].id \in Own'
  <2>1. \A i \in DOMAIN input' : input'[i].id \in Ids(input') /\ i \in 1 .. Len(input')
    BY <1>0 DEF Ids, TypeInv, Types
  <2> QED
    BY <1>4, <1>5, <2>1
<1>7. pending' # NoLine => ~ Ended(acc', pending'.id)
  <2>1. ~ Ended(<<>>, pending'.id)
    BY DEF Ended
  <2>2. acc' = <<>> \/ (acc' = acc /\ pending' = pending) \/ (pending' = pending /\ ~ Ended(acc', pending.id))
    BY DEF Moves, StartCommand, ReadCommandOutput, CtrlCRunning, ActivityTimeout, Abandon,
           CtrlCAtPrompt, ForwardKey,
           WriteHelper, Execute, ReadChunk, ExecuteTimeout, PollInit, PressTab, AwaitOver, ResetEngine, clientVars
  <2> QED
    BY <2>1, <2>2 DEF StreamInv
<1>8. waiting' # NoLine => ~ Ended(buf', waiting'.id)
  <2>1. ~ Ended(<<>>, waiting'.id)
    BY DEF Ended
  <2>2. buf' = <<>> \/ (buf' = buf /\ waiting' = waiting) \/ (waiting' = waiting /\ ~ Ended(buf', waiting.id))
    BY DEF Moves, StartCommand, ReadCommandOutput, CtrlCRunning, ActivityTimeout, Abandon,
           CtrlCAtPrompt, ForwardKey,
           WriteHelper, Execute, ReadChunk, ExecuteTimeout, Return, PollInit, PressTab, AwaitOver, ResetEngine, clientVars
  <2> QED
    BY <2>1, <2>2 DEF StreamInv
<1>9. \A id \in Nat \ loose' : SpentIn(out', id) /\ (Ended(out', id) => id # current'.id /\ id \notin Ids(input'))
  BY <1>0, <1>1
<1> HIDE DEF Known
<1> QED
  BY <1>3, <1>6, <1>7, <1>8, <1>9 DEF StreamInv, Of, Ended, Ids, SpentIn

----------------------------------------------------------------------------
(* What a command is reported with.                                        *)

\* The k-th text of a line.
Word(id, k) == [of |-> id, what |-> "text", val |-> k]

\* A line's texts come in their order.
InOrder(tokens, id) ==
    \A i, j \in DOMAIN tokens : \A k, l \in 1 .. MaxPrints :
        i < j /\ tokens[i] = Word(id, k) /\ tokens[j] = Word(id, l) => k <= l

\* The sentinel of a line finds what it says the line has printed.
Told(tokens, id, dropped) ==
    \A i \in DOMAIN tokens :
        tokens[i].of = id /\ tokens[i].what = "end" => Whole(Said(tokens, id), tokens[i].val, dropped)

\* What the client has and will read of a line, before it runs, while and after.
Heard(tokens, id) ==
    /\ InOrder(tokens, id) /\ Told(tokens, id, cut)
    /\ current.id = id => Whole(Said(tokens, id), printed, cut) /\ ~ Ended(tokens, id) /\ current.kind # "cwd"
    /\ id \in Ids(input) => Said(tokens, id) = {} /\ ~ Ended(tokens, id)
    /\ \A i \in DOMAIN input : input[i].id = id => input[i].kind # "cwd"

\* The running command's output is what is read and what is to be read.
ReportInv ==
    /\ pending # NoLine => Heard(acc \o out, pending.id)
    /\ ForeignOutputIsLoose
    /\ ReportIsComplete

\* Without its front the output of a line is still its last part.
LEMMA SaidLess ==
    ASSUME NEW s \in Seq(Token), NEW n \in 0 .. Len(s), NEW id, NEW c \in BOOLEAN, InOrder(s, id)
    PROVE  /\ Said(SubSeq(s, n + 1, Len(s)), id) \subseteq Said(s, id)
           /\ InOrder(SubSeq(s, n + 1, Len(s)), id)
           /\ \A v \in Int : Whole(Said(s, id), v, c) => Whole(Said(SubSeq(s, n + 1, Len(s)), id), v, c \/ n > 0)
           /\ Told(s, id, c) => Told(SubSeq(s, n + 1, Len(s)), id, c \/ n > 0)
<1> DEFINE r == SubSeq(s, n + 1, Len(s))
           m == Len(s)
           k == m - n
<1>0. MaxPrints \in Nat /\ \A t \in Token : t.val \in Int
  BY PtyAssumption DEF Token
<1>a. \A i \in 1 .. m : s[i] \in Token
  OBVIOUS
<1>b. m \in Nat /\ n \in Nat /\ k \in Nat /\ DOMAIN s = 1 .. m
  OBVIOUS
<1>1. /\ m \in Nat /\ n \in Nat /\ k \in Nat /\ DOMAIN s = 1 .. m /\ MaxPrints \in Nat
      /\ \A i \in 1 .. m : s[i] \in Token /\ s[i].val \in Int
  BY <1>0, <1>a, <1>b
<1>2. r \in Seq(Token) /\ DOMAIN r = 1 .. k /\ \A i \in 1 .. k : r[i] = s[n + i]
  BY Left
<1>3. /\ \A i \in 1 .. k : n + i \in 1 .. m
      /\ \A i, j \in 1 .. k : i < j => n + i < n + j
      /\ \A i \in 1 .. m : \A j \in 1 .. k : n + j < i => i - n \in 1 .. k /\ n + (i - n) = i
  OBVIOUS
<1>4. n = 0 => \A i \in 1 .. m : i \in 1 .. k /\ n + i = i
  OBVIOUS
<1> HIDE DEF r, m, k
<1>5. Said(r, id) \subseteq Said(s, id)
  BY <1>1, <1>2, <1>3 DEF Said
<1>6. InOrder(r, id)
  <2> SUFFICES ASSUME NEW i \in 1 .. k, NEW j \in 1 .. k, NEW a \in 1 .. MaxPrints, NEW b \in 1 .. MaxPrints,
                      i < j, r[i] = Word(id, a), r[j] = Word(id, b)
               PROVE  a <= b
    BY <1>2 DEF InOrder
  <2>1. n + i \in DOMAIN s /\ n + j \in DOMAIN s /\ n + i < n + j /\ s[n + i] = Word(id, a) /\ s[n + j] = Word(id, b)
    BY <1>1, <1>2, <1>3
  <2>2. PICK e \in DOMAIN s : e = n + i
    BY <2>1
  <2>3. PICK f \in DOMAIN s : f = n + j
    BY <2>1
  <2> QED
    BY <2>1, <2>2, <2>3 DEF InOrder
<1>7. n = 0 => Said(s, id) \subseteq Said(r, id)
  BY <1>1, <1>2, <1>4 DEF Said
<1>8. ASSUME NEW a \in Said(r, id), NEW b \in Said(s, id), a < b
      PROVE  b \in Said(r, id)
  <2>1. PICK i \in 1 .. k : r[i] = Word(id, a)
    BY <1>2, <1>8 DEF Said, Word
  <2>2. PICK j \in 1 .. m : s[j] = Word(id, b)
    BY <1>1, <1>8 DEF Said, Word
  <2>3. a \in 1 .. MaxPrints /\ b \in 1 .. MaxPrints
    BY <1>8 DEF Said
  <2>4. n + i \in 1 .. m /\ s[n + i] = Word(id, a)
    BY <1>2, <1>3, <2>1
  <2>5. ~ (j < n + i)
    <3>1. ~ (b <= a)
      BY <1>1, <1>8, <2>3
    <3> QED
      BY <1>1, <2>2, <2>3, <2>4, <3>1 DEF InOrder
  <2>6. j # n + i
    BY <1>8, <2>2, <2>3, <2>4 DEF Word
  <2>7. j - n \in 1 .. k /\ n + (j - n) = j
    <3>1. n + i < j
      BY <1>1, <2>4, <2>5, <2>6
    <3> QED
      BY <1>3, <3>1
  <2>8. r[j - n] = Word(id, b)
    BY <1>2, <2>2, <2>7
  <2> QED
    BY <1>2, <2>3, <2>7, <2>8 DEF Said, Word
<1>9. ASSUME NEW v \in Int, Whole(Said(s, id), v, c)
      PROVE  Whole(Said(r, id), v, c \/ n > 0)
  <2>1. (c \/ n > 0) \/ Said(r, id) = 1 .. v
    <3>1. CASE n = 0
      BY <1>5, <1>7, <1>9, <3>1 DEF Whole
    <3>2. CASE n > 0
      BY <3>2
    <3> QED
      BY <1>1, <3>1, <3>2
  <2>2. ASSUME NEW a \in Said(r, id) PROVE a <= v /\ a .. v \subseteq Said(r, id)
    <3>1. a \in Said(s, id) /\ a \in 1 .. MaxPrints
      BY <1>5 DEF Said
    <3>2. a <= v /\ a .. v \subseteq Said(s, id)
      BY <1>9, <3>1 DEF Whole
    <3>3. ASSUME NEW b \in a .. v PROVE b \in Said(r, id)
      <4>1. b = a \/ a < b
        BY <3>1
      <4>2. b \in Said(s, id)
        BY <3>2
      <4> QED
        BY <1>8, <4>1, <4>2
    <3> QED
      BY <3>2, <3>3
  <2> QED
    BY <2>1, <2>2 DEF Whole
<1>10. ASSUME Told(s, id, c) PROVE Told(r, id, c \/ n > 0)
  <2> SUFFICES ASSUME NEW i \in 1 .. k, r[i].of = id, r[i].what = "end"
               PROVE  Whole(Said(r, id), r[i].val, c \/ n > 0)
    BY <1>2 DEF Told
  <2>1. n + i \in 1 .. m /\ r[i] = s[n + i] /\ r[i].val \in Int
    BY <1>1, <1>2, <1>3
  <2>2. Whole(Said(s, id), r[i].val, c)
    BY <1>1, <1>10, <2>1 DEF Told
  <2> QED
    BY <1>9, <2>1, <2>2
<1> QED
  BY <1>5, <1>6, <1>9, <1>10 DEF r, m

\* One token more.
LEMMA SaidMore ==
    ASSUME NEW ts \in Seq(Token), NEW t \in Token, NEW id, NEW c \in BOOLEAN
    PROVE  /\ Said(Append(ts, t), id) = Said(ts, id) \cup {k \in 1 .. MaxPrints : t = Word(id, k)}
           /\ InOrder(ts, id) /\ (\A l \in 1 .. MaxPrints : t = Word(id, l) => \A k \in Said(ts, id) : k <= l)
                  => InOrder(Append(ts, t), id)
           /\ Told(ts, id, c) /\ (t.of = id /\ t.what = "end" => Whole(Said(ts, id), t.val, c))
              /\ ((\E l \in 1 .. MaxPrints : t = Word(id, l)) => ~ Ended(ts, id))
                  => Told(Append(ts, t), id, c)
<1> DEFINE a == Append(ts, t)
           n == Len(ts)
<1>1. n \in Nat /\ DOMAIN ts = 1 .. n
  OBVIOUS
<1>2. /\ DOMAIN a = 1 .. n + 1 /\ a[n + 1] = t
      /\ \A i \in 1 .. n : a[i] = ts[i]
      /\ \A i \in 1 .. n + 1 : i \in 1 .. n \/ i = n + 1
  BY Behind
<1>3. 1 .. n \subseteq 1 .. n + 1 /\ n + 1 \in 1 .. n + 1 /\ \A i \in 1 .. n + 1 : ~ (n + 1 < i)
  BY <1>1
<1> HIDE DEF a, n
<1>4. Said(a, id) = Said(ts, id) \cup {k \in 1 .. MaxPrints : t = Word(id, k)}
  BY <1>1, <1>2, <1>3 DEF Said, Word
<1>5. ASSUME InOrder(ts, id), \A l \in 1 .. MaxPrints : t = Word(id, l) => \A k \in Said(ts, id) : k <= l
      PROVE  InOrder(a, id)
  <2> SUFFICES ASSUME NEW i \in 1 .. n + 1, NEW j \in 1 .. n + 1, NEW k \in 1 .. MaxPrints, NEW l \in 1 .. MaxPrints,
                      i < j, a[i] = Word(id, k), a[j] = Word(id, l)
               PROVE  k <= l
    BY <1>2 DEF InOrder
  <2>1. i \in 1 .. n
    BY <1>2, <1>3
  <2>2. CASE j \in 1 .. n
    BY <1>1, <1>2, <1>5, <2>1, <2>2 DEF InOrder
  <2>3. CASE j = n + 1
    <3>1. k \in Said(ts, id) /\ t = Word(id, l)
      BY <1>1, <1>2, <2>1, <2>3 DEF Said, Word
    <3> QED
      BY <1>5, <3>1
  <2> QED
    BY <1>2, <2>2, <2>3
<1>6. ASSUME Told(ts, id, c), t.of = id /\ t.what = "end" => Whole(Said(ts, id), t.val, c),
             (\E l \in 1 .. MaxPrints : t = Word(id, l)) => ~ Ended(ts, id),
             NEW i \in 1 .. n + 1, a[i].of = id, a[i].what = "end"
      PROVE  Whole(Said(a, id), a[i].val, c)
  <2>1. ~ \E l \in 1 .. MaxPrints : t = Word(id, l)
    <3>1. CASE i \in 1 .. n
      BY <1>1, <1>2, <1>6, <3>1 DEF Ended
    <3>2. CASE i = n + 1
      BY <1>2, <1>6, <3>2 DEF Word
    <3> QED
      BY <1>2, <3>1, <3>2
  <2>2. Said(a, id) = Said(ts, id)
    BY <1>4, <2>1
  <2>3. CASE i \in 1 .. n
    BY <1>1, <1>2, <1>6, <2>2, <2>3 DEF Told
  <2>4. CASE i = n + 1
    BY <1>2, <1>6, <2>2, <2>4
  <2> QED
    BY <1>2, <2>3, <2>4
<1> QED
  BY <1>2, <1>4, <1>5, <1>6 DEF Told, a

\* What is put behind the second of two sequences is put behind both.
LEMMA FurtherBehind ==
    ASSUME NEW s \in Seq(Token), NEW t \in Seq(Token), NEW e \in Token
    PROVE  s \o Append(t, e) = Append(s \o t, e)
<1> DEFINE x == s \o Append(t, e)
           y == Append(s \o t, e)
<1>1. x \in Seq(Token) /\ y \in Seq(Token) /\ Len(x) = Len(s) + Len(t) + 1 /\ Len(y) = Len(s) + Len(t) + 1
  OBVIOUS
<1>2. ASSUME NEW i \in 1 .. Len(s) + Len(t) + 1 PROVE x[i] = y[i]
  OBVIOUS
<1> HIDE DEF x, y
<1>3. x = y
  BY <1>1, <1>2, SeqEqual
<1> QED
  BY <1>3 DEF x, y

\* A command's line is not taken for another, and bash runs it once.
LEMMA InputKept ==
    ASSUME TypeInv, InputMove, NEW id \in 1 .. sent, \A i \in DOMAIN input : input[i].id = id => input[i].kind # "cwd",
           current.id = id => current.kind # "cwd"
    PROVE  /\ id \in Ids(input') => id \in Ids(input)
           /\ \A i \in DOMAIN input' : input'[i].id = id => input'[i].kind # "cwd"
           /\ current'.id = id => current'.kind # "cwd"
           /\ current'.id = id => (current' = current \/ (current = NoLine /\ id \in Ids(input)))
<1>0. /\ input \in Seq(Line) /\ sent \in Nat /\ id # 0 /\ id # sent + 1 /\ id # sent + 2 /\ DOMAIN input = 1 .. Len(input)
      /\ Typed \in Line /\ NoLine.id = 0 /\ Typed.id = 0
  BY DEF TypeInv, Types, Typed, NoLine, Line, Kinds
<1> DEFINE Fits(l) == l.id = id => l.kind # "cwd" /\ id \in Ids(input)
<1>1. \A i \in 1 .. Len(input) : Fits(input[i])
  BY <1>0 DEF Ids
<1>2. \A l : l.id # id => Fits(l)
  OBVIOUS
<1>a. current = NoLine \/ current' = current => Fits(current) \/ current' = current
  BY <1>0
<1> HIDE DEF Fits
<1>3. /\ DOMAIN input' = 1 .. Len(input') /\ \A i \in 1 .. Len(input') : Fits(input'[i])
      /\ current' \in {NoLine, current} \/ (current = NoLine /\ Fits(current'))
  <2>1. CASE input' \in {input, <<>>} /\ current' \in {NoLine, current}
    BY <1>0, <1>1, <2>1
  <2>2. ASSUME NEW line \in Line, Written(line)
        PROVE  /\ DOMAIN input' = 1 .. Len(input') /\ \A i \in 1 .. Len(input') : Fits(input'[i])
               /\ current' \in {NoLine, current}
    <3>1. Fits(line) /\ current' = current /\ input' = Append(input, line)
      BY <1>0, <1>2, <2>2 DEF Written
    <3> QED
      BY <1>0, <1>1, <3>1, Behind
  <2>3. CASE WrittenTwo
    <3> DEFINE h == New(1, "helper")
               v == New(2, "verify")
    <3>1. h \in Line /\ h.id = sent + 1 /\ v \in Line /\ v.id = sent + 2
      BY <1>0, LinesTwo
    <3>2. input' = Append(Append(input, h), v) /\ current' = current
      BY <2>3 DEF WrittenTwo
    <3> HIDE DEF h, v
    <3>3. Fits(h) /\ Fits(v)
      BY <1>0, <1>2, <3>1
    <3>4. Append(input, h) \in Seq(Line) /\ \A i \in 1 .. Len(Append(input, h)) : Fits(Append(input, h)[i])
      BY <1>0, <1>1, <3>1, <3>3, Behind
    <3>5. /\ Append(Append(input, h), v) \in Seq(Line)
          /\ \A i \in 1 .. Len(Append(Append(input, h), v)) : Fits(Append(Append(input, h), v)[i])
      BY <3>1, <3>3, <3>4, Behind
    <3> QED
      BY <3>2, <3>5
  <2>4. CASE input' = Append(input, Typed) /\ current' = current
    <3>1. Fits(Typed)
      BY <1>0, <1>2
    <3> QED
      BY <1>0, <1>1, <2>4, <3>1, Behind
  <2>5. CASE Started
    <3>1. PICK n \in 1 .. 2 :
             /\ n <= Len(input) /\ input' \in Seq(Line) /\ Len(input') = Len(input) - n
             /\ \A i \in 1 .. Len(input') : input'[i] = input[n + i]
             /\ current'.id = input[n].id
             /\ n = 1 => current' = input[1]
             /\ n = 2 => input[1] = Typed /\ current'.kind = IF input[2].kind \in NoSentinel THEN "typed" ELSE "spoiled"
      BY <2>5, StartedLines DEF TypeInv
    <3>2. \A i \in 1 .. Len(input') : n + i \in 1 .. Len(input)
      BY <1>0, <3>1
    <3>3. \A i \in 1 .. Len(input') : Fits(input'[i])
      BY <1>1, <3>1, <3>2
    <3>4. n \in 1 .. Len(input)
      BY <1>0, <3>1
    <3>5. n = 1 => Fits(current')
      BY <1>1, <3>1, <3>4
    <3>6. n = 2 => Fits(current')
      <4>1. n = 2 => current'.kind # "cwd"
        BY <3>1
      <4>2. n = 2 /\ current'.id = id => id \in Ids(input)
        BY <1>0, <3>1, <3>4 DEF Ids
      <4> QED
        BY <4>1, <4>2 DEF Fits
    <3>7. current = NoLine /\ DOMAIN input' = 1 .. Len(input')
      BY <2>5, <3>1 DEF Started
    <3> QED
      BY <3>1, <3>3, <3>5, <3>6, <3>7
  <2> QED
    BY <1>0, <2>1, <2>2, <2>3, <2>4, <2>5 DEF InputMove
<1>4. id \in Ids(input') => id \in Ids(input)
  BY <1>3 DEF Ids, Fits
<1>5. \A i \in DOMAIN input' : input'[i].id = id => input'[i].kind # "cwd"
  BY <1>3 DEF Fits
<1>6. current'.id = id => (current' = current \/ (current = NoLine /\ id \in Ids(input)))
  BY <1>0, <1>3 DEF Fits
<1>7. current'.id = id => current'.kind # "cwd"
  BY <1>0, <1>3 DEF Fits
<1> QED
  BY <1>4, <1>5, <1>6, <1>7

\* The number of the next text is not below what was printed.
LEMMA NextIsNext ==
    ASSUME TypeInv
    PROVE  /\ printed \in 0 .. MaxPrints /\ MaxPrints \in Nat /\ NextText \in 1 .. MaxPrints /\ printed <= NextText
           /\ \A S \in SUBSET (1 .. MaxPrints) : \A c \in BOOLEAN :
                 Whole(S, printed, c) => Whole(S \cup {NextText}, NextText, c)
<1>1. printed \in 0 .. MaxPrints /\ MaxPrints \in Nat /\ MaxPrints # 0
  BY PtyAssumption DEF TypeInv, Types
<1>2. NextText \in 1 .. MaxPrints /\ (NextText = printed + 1 \/ (NextText = printed /\ printed = MaxPrints))
  BY <1>1 DEF NextText
<1>3. ASSUME NEW S \in SUBSET (1 .. MaxPrints), NEW c \in BOOLEAN, Whole(S, printed, c)
      PROVE  Whole(S \cup {NextText}, NextText, c)
  <2>1. c \/ S \cup {NextText} = 1 .. NextText
    BY <1>1, <1>2, <1>3 DEF Whole
  <2>2. ASSUME NEW k \in S \cup {NextText} PROVE k <= NextText /\ k .. NextText \subseteq S \cup {NextText}
    <3>1. CASE k = NextText
      BY <1>1, <1>2, <3>1
    <3>2. CASE k \in S
      <4>1. k <= printed /\ k .. printed \subseteq S /\ k \in 1 .. MaxPrints
        BY <1>3, <3>2 DEF Whole
      <4>2. \A l \in k .. NextText : l = NextText \/ l \in k .. printed
        BY <1>1, <1>2, <4>1
      <4> QED
        BY <1>1, <1>2, <4>1, <4>2
    <3> QED
      BY <3>1, <3>2
  <2> QED
    BY <2>1, <2>2 DEF Whole
<1> QED
  BY <1>1, <1>2, <1>3

\* Steps keep the command's output complete up to its report.
LEMMA ReportStep ==
    ASSUME TypeInv, LineInv, StreamInv, ReportInv, Moves
    PROVE  ReportInv'
<1>0. /\ TypeInv' /\ InputMove /\ OutMove /\ Loosened /\ Engaged
      /\ out \in Seq(Token) /\ acc \in Seq(Token) /\ sent \in Nat /\ current \in Line /\ cut \in BOOLEAN
      /\ 0 \in loose /\ loose \subseteq loose' /\ loose \subseteq 0 .. sent /\ NoLine.id = 0
  BY TypeStep, InputMoves, OutMoves, ClientMoves DEF TypeInv, Types, Numbers, Loosened, NoLine
<1>1. ASSUME report' = report PROVE ForeignOutputIsLoose' /\ ReportIsComplete'
  BY <1>0, <1>1 DEF ReportInv, ForeignOutputIsLoose, ReportIsComplete
<1>p. pending # NoLine => pending.id \in 1 .. sent
  BY <1>0 DEF TypeInv, Types, Numbers, Line
<1>2. CASE ReadCommandOutput
  <2>1. pending # NoLine /\ out' = <<>> /\ printed' = printed /\ current' = current /\ loose' = loose
    BY <1>2, ReadEffect DEF TypeInv
  <2>2. PICK p \in 1 .. sent : p = pending.id
    BY <1>p, <2>1
  <2>3. PICK ts \in Seq(Token) : ts = acc \o out
    BY <1>0, TokensBehind
  <2>4. PICK c \in BOOLEAN : c = cut
    BY <1>0
  <2>5. Heard(ts, p) /\ Of(ts) = Of(acc) \cup Of(out)
    BY <1>0, <2>1, <2>2, <2>3, TokensBehind DEF ReportInv
  <2>6. PICK n \in 0 .. Len(ts) - 1 :
           /\ Kept(n) \in Seq(Token)
           /\ IF Ended(Kept(n), p)
              THEN /\ report' = [of |-> p, tokens |-> Kept(n), cut |-> c \/ n > 0]
                   /\ pending' = NoLine
              ELSE acc' = Kept(n) /\ cut' = (c \/ n > 0) /\ report' = report /\ pending' = pending
    BY <1>2, <2>2, <2>3, <2>4, ReadEffect DEF TypeInv
  <2>7. PICK r \in Seq(Token) : r = Kept(n) /\ r = SubSeq(ts, n + 1, Len(ts))
    BY <2>3, <2>6 DEF Kept
  <2>8. n \in 0 .. Len(ts) /\ (c \/ n > 0) \in BOOLEAN
    BY <2>4, <2>6
  <2>9. /\ Said(r, p) \subseteq Said(ts, p) /\ InOrder(r, p)
        /\ \A v \in Int : Whole(Said(ts, p), v, c) => Whole(Said(r, p), v, c \/ n > 0)
        /\ Told(r, p, c \/ n > 0)
    BY <2>4, <2>5, <2>7, <2>8, SaidLess DEF Heard
  <2>10. Of(r) \subseteq Of(ts) /\ (Ended(r, p) => Ended(ts, p))
    BY <2>7, <2>8, TokensLeft
  <2>11. CASE Ended(r, p)
    <3>1. report'.of = p /\ report'.tokens = r /\ report'.cut = (c \/ n > 0) /\ pending' = NoLine
      BY <2>6, <2>7, <2>11
    <3>2. ReportIsComplete'
      BY <2>9, <3>1 DEF ReportIsComplete, Told
    <3>3. Own \subseteq loose \cup {p}
      <4>1. waiting = NoLine /\ (InProgress => engine.line \in loose)
        BY <2>1 DEF TypeInv, Control
      <4>2. ~ InProgress => engine.line = 0
        BY DEF TypeInv, Numbers
      <4> QED
        BY <1>0, <2>2, <4>1, <4>2 DEF Own
    <3>4. Of(r) \subseteq loose' \cup {p}
      BY <2>1, <2>5, <2>10, <3>3 DEF StreamInv
    <3>5. ForeignOutputIsLoose'
      BY <3>1, <3>4 DEF ForeignOutputIsLoose, Of
    <3> QED
      BY <3>1, <3>2, <3>5 DEF ReportInv
  <2>12. CASE ~ Ended(r, p)
    <3>1. acc' = r /\ cut' = (c \/ n > 0) /\ report' = report /\ pending'.id = p
      BY <2>2, <2>6, <2>7, <2>12
    <3>2. acc' \o out' = r
      BY <2>1, <2>7, <3>1
    <3>3. /\ p \in Ids(input') => p \in Ids(input)
          /\ \A i \in DOMAIN input' : input'[i].id = p => input'[i].kind # "cwd"
      BY <1>0, <2>5, InputKept DEF Heard
    <3>4. current'.id = p => Whole(Said(r, p), printed, c \/ n > 0) /\ ~ Ended(r, p) /\ current'.kind # "cwd"
      <4>1. current.id = p => Whole(Said(ts, p), printed, c) /\ current.kind # "cwd"
        BY <2>4, <2>5 DEF Heard
      <4>2. printed \in Int
        BY NextIsNext
      <4> QED
        BY <2>1, <2>9, <2>12, <4>1, <4>2
    <3>5. p \in Ids(input') => Said(r, p) = {}
      BY <2>5, <2>9, <3>3 DEF Heard
    <3>6. Heard(r, p)'
      BY <2>1, <2>9, <2>12, <3>1, <3>3, <3>4, <3>5 DEF Heard, InOrder, Told, Said, Whole, Ended, Ids
    <3>7. Heard(acc \o out, pending.id)'
      BY <3>1, <3>2, <3>6 DEF Heard, InOrder, Told, Said, Whole, Ended, Ids
    <3> QED
      BY <1>1, <3>1, <3>7 DEF ReportInv
  <2> QED
    BY <2>11, <2>12
<1>3. CASE ~ ReadCommandOutput
  <2>1. report' = report
    BY <1>3 DEF Moves, StartCommand, CtrlCRunning, ActivityTimeout, Abandon, CtrlCAtPrompt, ForwardKey,
           WriteHelper, Execute, ReadChunk, ExecuteTimeout, PollInit, PressTab, AwaitOver, ResetEngine, clientVars
  <2>2. ASSUME pending' # NoLine
        PROVE  Heard(acc \o out, pending.id)'
    <3>1. CASE pending = NoLine
      <4>1. StartCommand
        BY <1>3, <2>2, <3>1 DEF Moves, CtrlCRunning, ActivityTimeout, Abandon, CtrlCAtPrompt, ForwardKey,
             WriteHelper, Execute, ReadChunk, ExecuteTimeout, PollInit, PressTab, AwaitOver, ResetEngine, clientVars
      <4>2. acc' = <<>> /\ out' = out /\ current' = current
        BY <4>1 DEF StartCommand, BashKeeps
      <4>3. PICK p \in Nat : p = sent + 1 /\ p = pending'.id
        BY <2>2, <3>1 , <1>0 DEF Engaged
      <4>4. Of(out) \subseteq 0 .. sent /\ current.id <= sent
        <5>1. pending.id \in 0 .. sent /\ waiting.id \in 0 .. sent /\ engine.line \in 0 .. sent
          BY <1>0 DEF TypeInv, Types, Numbers, Line
        <5> QED
          BY <1>0, <5>1 DEF Own, StreamInv, TypeInv, Numbers
      <4>5. acc' \o out' = out
        BY <1>0, <4>2
      <4>6. \A i \in DOMAIN out : out[i].of # p
        <5>1. \A i \in DOMAIN out : out[i].of \in 0 .. sent
          BY <4>4 DEF Of
        <5>2. p \notin 0 .. sent
          BY <1>0, <4>3
        <5> QED
          BY <5>1, <5>2
      <4>7. current'.id # p
        BY <1>0, <4>2, <4>3, <4>4 DEF Line
      <4>8. Said(out, p) = {} /\ ~ Ended(out, p)
        BY <4>6 DEF Said, Ended
      <4>9. InOrder(out, p)
        BY <4>6 DEF InOrder, Word
      <4>10. \A i \in DOMAIN input' : input'[i].id = p => input'[i].kind # "cwd"
        <5>1. PICK kind \in {"user", "cd"} : input' = (IF alive THEN Append(input, New(1, kind)) ELSE input)
          BY <4>1, StartEffect DEF TypeInv
        <5>2. New(1, kind) \in Line /\ New(1, kind).kind = kind
          <6>1. kind \in Kinds
            BY DEF Kinds
          <6> QED
            BY <1>0, <6>1, Newed
        <5>3. input \in Seq(Line) /\ DOMAIN input = 1 .. Len(input) /\ \A i \in 1 .. Len(input) : input[i].id # p
          <6>1. input \in Seq(Line) /\ \A i \in DOMAIN input : input[i].id <= sent
            BY DEF TypeInv, Types, Numbers
          <6>a. \A i \in 1 .. Len(input) : input[i] \in Line
            BY <6>1
          <6>2. \A i \in 1 .. Len(input) : input[i].id \in Nat /\ input[i].id <= sent
            BY <6>1, <6>a DEF Line
          <6> QED
            BY <1>0, <4>3, <6>1, <6>2
        <5>4. CASE alive
          BY <5>1, <5>2, <5>3, <5>4, Behind
        <5>5. CASE ~ alive
          BY <5>1, <5>3, <5>5
        <5> QED
          BY <5>4, <5>5
      <4>11. Heard(out, p)'
        BY <4>2, <4>6, <4>7, <4>8, <4>9, <4>10 DEF Heard, InOrder, Told, Said, Whole, Ended, Ids
      <4> QED
        BY <4>2, <4>3, <4>5, <4>11 DEF Heard, InOrder, Told, Said, Whole, Ended, Ids
    <3>2. CASE pending # NoLine
      <4>1. pending' = pending /\ acc' = acc /\ cut' = cut /\ ~ ReadChunk /\ ~ PollInit
        BY <1>3, <2>2, <3>2 DEF Moves, StartCommand, Free, CtrlCRunning, ActivityTimeout, Abandon,
                        CtrlCAtPrompt, ForwardKey,
             WriteHelper, Execute, ReadChunk, ExecuteTimeout, PollInit, Polls, PressTab, AwaitOver, ResetEngine, clientVars,
             TypeInv, Control
      <4>p. PICK p \in 1 .. sent : p = pending.id
        BY <1>p, <3>2
      <4>2. PICK ts \in Seq(Token) : ts = acc \o out
        BY <1>0, TokensBehind
      <4>3. Heard(ts, p) /\ p # 0
        BY <3>2, <4>p, <4>2 DEF ReportInv
      <4>c. PICK c \in BOOLEAN : c = cut /\ c = cut'
        BY <1>0, <4>1
      <4>4. /\ p \in Ids(input') => p \in Ids(input)
            /\ \A i \in DOMAIN input' : input'[i].id = p => input'[i].kind # "cwd"
            /\ current'.id = p => current'.kind # "cwd"
            /\ current'.id = p => (current' = current \/ (current = NoLine /\ p \in Ids(input)))
        BY <1>0, <4>3, InputKept DEF Heard
      <4>5. ASSUME NEW us, acc' \o out' = us,
                   InOrder(us, p), Told(us, p, c),
                   current'.id = p => Whole(Said(us, p), printed', c) /\ ~ Ended(us, p),
                   p \in Ids(input') => Said(us, p) = {} /\ ~ Ended(us, p)
            PROVE  Heard(acc \o out, pending.id)'
        BY <4>1, <4>p, <4>c, <4>4, <4>5 DEF Heard, InOrder, Told, Said, Whole, Ended, Ids
      <4>h. /\ InOrder(ts, p) /\ Told(ts, p, c)
            /\ current.id = p => Whole(Said(ts, p), printed, c) /\ ~ Ended(ts, p) /\ current.kind # "cwd"
            /\ p \in Ids(input) => Said(ts, p) = {} /\ ~ Ended(ts, p)
        BY <4>3, <4>c DEF Heard
      <4>6. CASE out' = out
        <5>1. ~ PrintText
          BY <1>0, <4>6, Behind DEF PrintText
        <5>2. StartLine => printed' = 0 /\ current = NoLine
          BY DEF StartLine, Run
        <5>3. ~ StartLine => printed' = printed /\ current' \in {current, NoLine}
          BY <5>1 DEF Moves, StartCommand, ReadCommandOutput, CtrlCRunning, ActivityTimeout, Abandon, Interrupt,
               CtrlCAtPrompt, ForwardKey, WriteHelper, Execute, ReadChunk, ExecuteTimeout, PollInit, PressTab, AwaitOver,
               ResetEngine, BashKeeps, bashVars, BashStep, EndLine, LeaveJob, JobPrints, BashDies
        <5>4. Whole({}, 0, c)
          BY DEF Whole
        <5>5. current'.id = p => Whole(Said(ts, p), printed', c) /\ ~ Ended(ts, p)
          <6> SUFFICES ASSUME current'.id = p PROVE Whole(Said(ts, p), printed', c) /\ ~ Ended(ts, p)
            OBVIOUS
          <6>1. CASE StartLine
            BY <1>0, <4>3, <4>4, <4>h, <5>2, <5>4, <6>1
          <6>2. CASE ~ StartLine
            BY <1>0, <4>3, <4>h, <5>3, <6>2
          <6> QED
            BY <6>1, <6>2
        <5>6. acc' \o out' = ts
          BY <4>1, <4>2, <4>6
        <5> QED
          BY <4>4, <4>5, <4>h, <5>5, <5>6
      <4>7. ASSUME NEW t \in Token, Printed(t)
            PROVE  /\ acc' \o out' = Append(ts, t) /\ input' = input
                   /\ Said(Append(ts, t), p) = Said(ts, p) \cup {k \in 1 .. MaxPrints : t = Word(p, k)}
                   /\ Ended(Append(ts, t), p) => Ended(ts, p) \/ (t.of = p /\ t.what = "end")
        <5>1. out' = Append(out, t) /\ input' = input
          BY <4>7 DEF Printed
        <5>2. acc' \o out' = Append(ts, t)
          BY <1>0, <4>1, <4>2, <5>1, FurtherBehind
        <5>3. Said(Append(ts, t), p) = Said(ts, p) \cup {k \in 1 .. MaxPrints : t = Word(p, k)}
          BY SaidMore
        <5>4. Ended(Append(ts, t), p) => Ended(ts, p) \/ (t.of = p /\ t.what = "end")
          BY TokenBehind
        <5> QED
          BY <5>1, <5>2, <5>3, <5>4
      \* A token that is neither a text nor the sentinel of the command.
      <4>8. ASSUME NEW t \in Token, Printed(t), \A k \in 1 .. MaxPrints : t # Word(p, k), ~ (t.of = p /\ t.what = "end"),
                   current'.id = p => current' = current /\ printed' = printed
            PROVE  Heard(acc \o out, pending.id)'
        <5>1. Said(Append(ts, t), p) = Said(ts, p) /\ (Ended(Append(ts, t), p) => Ended(ts, p))
          BY <4>7, <4>8
        <5>2. InOrder(Append(ts, t), p) /\ Told(Append(ts, t), p, c)
          BY <4>8, <4>h, SaidMore
        <5> QED
          BY <4>5, <4>7, <4>8, <4>h, <5>1, <5>2
      <4>9. CASE current # NoLine /\ Printed(NextSaid) /\ printed' = NextText /\ current' = current
        <5>1. PICK t \in Token : t = NextSaid /\ Printed(t)
          BY <4>9 DEF Printed
        <5>2. t.of = current.id /\ t.what = "text"
          BY <5>1 DEF NextSaid, Text
        <5>3. CASE current.id # p
          BY <4>8, <4>9, <5>1, <5>2, <5>3 DEF Word
        <5>4. CASE current.id = p
          <6>1. PICK l \in 1 .. MaxPrints : l = NextText
            BY NextIsNext
          <6>2. t = Word(p, l)
            BY <4>h, <5>1, <5>4, <6>1 DEF NextSaid, Text, Word
          <6>3. Whole(Said(ts, p), printed, c) /\ ~ Ended(ts, p) /\ Said(ts, p) \in SUBSET (1 .. MaxPrints)
            BY <4>h, <5>4 DEF Said
          <6>4. \A k \in Said(ts, p) : k <= l
            <7>1. \A k \in Said(ts, p) : k <= printed /\ k \in 1 .. MaxPrints
              BY <6>3 DEF Whole
            <7> QED
              BY <6>1, <7>1, NextIsNext
          <6>5. \A k : t = Word(p, k) <=> k = l
            BY <6>2 DEF Word
          <6>6. Said(Append(ts, t), p) = Said(ts, p) \cup {l} /\ ~ Ended(Append(ts, t), p)
            BY <4>7, <5>1, <5>2, <6>3, <6>5
          <6>7. Whole(Said(Append(ts, t), p), printed', c)
            BY <4>9, <6>1, <6>3, <6>6, NextIsNext
          <6>8. InOrder(Append(ts, t), p)
            BY <4>h, <6>4, <6>5, SaidMore
          <6>9. Told(Append(ts, t), p, c)
            BY <4>h, <5>2, <6>3, SaidMore
          <6>10. p \notin Ids(input')
            BY <4>3, <4>7, <5>1, <5>4 DEF LineInv
          <6> QED
            BY <4>5, <4>7, <5>1, <6>6, <6>7, <6>8, <6>9, <6>10
        <5> QED
          BY <5>3, <5>4
      <4>10. CASE Printed(LastSaid) /\ current' = NoLine
        <5>1. PICK t \in Token : t = LastSaid /\ Printed(t)
          BY <4>10 DEF Printed
        <5>2. t.of = current.id /\ t.what = "end" /\ t.val = printed
          BY <5>1 DEF LastSaid, End
        <5>3. current'.id # p
          BY <1>0, <4>3, <4>10
        <5>4. CASE current.id # p
          BY <4>8, <5>1, <5>2, <5>3, <5>4 DEF Word
        <5>5. CASE current.id = p
          <6>1. \A k : t # Word(p, k)
            BY <5>2 DEF Word
          <6>2. InOrder(Append(ts, t), p) /\ Told(Append(ts, t), p, c)
            BY <4>h, <5>2, <5>5, <6>1, SaidMore
          <6>3. p \notin Ids(input')
            BY <4>3, <4>7, <5>1, <5>5 DEF LineInv
          <6> QED
            BY <4>5, <4>7, <5>1, <5>3, <6>2, <6>3
        <5> QED
          BY <5>4, <5>5
      <4>11. CASE \E j \in jobs : Printed([of |-> j, what |-> "text", val |-> 0]) /\ current' = current
                         /\ printed' = printed
        <5>1. PICK j \in jobs : Printed([of |-> j, what |-> "text", val |-> 0])
          BY <4>11
        <5>2. PICK t \in Token : t = [of |-> j, what |-> "text", val |-> 0] /\ Printed(t)
          BY <5>1 DEF Printed
        <5>3. t.what = "text" /\ t.val = 0
          BY <5>2
        <5>4. \A k \in 1 .. MaxPrints : t # Word(p, k)
          <6>1. \A k \in 1 .. MaxPrints : Word(p, k).val = k /\ k # 0
            BY NextIsNext DEF Word
          <6> QED
            BY <5>3, <6>1
        <5> QED
          BY <4>8, <4>11, <5>2, <5>3, <5>4
      <4>12. ~ Reads
        BY <1>3, <2>2, <4>1 DEF Reads, CtrlCRunning, ActivityTimeout, Abandon
      <4> QED
        BY <1>0, <4>6, <4>9, <4>10, <4>11, <4>12 DEF OutMove
    <3> QED
      BY <3>1, <3>2
  <2> QED
    BY <1>1, <2>1, <2>2 DEF ReportInv
<1> QED
  BY <1>2, <1>3

----------------------------------------------------------------------------
(* While nothing is interrupted, typed ahead, timed out or left behind.    *)

\* The terminal holds what the client wrote, for a bash that lives.
Plain ==
    /\ alive /\ jobs = {} /\ engine.state # "NotStarted"
    /\ current.kind \notin {"typed", "spoiled"}
    /\ \A i \in DOMAIN input : input[i].kind \notin {"typed", "spoiled"}

\* What is waited for is not loose.
Awaited ==
    /\ pending # NoLine => pending.id \notin loose
    /\ waiting # NoLine => waiting.id \notin loose /\ waiting.id # engine.line

\* Bash has nothing to do and the client nothing to read.
Quiet == input = <<>> /\ current = NoLine /\ out = <<>>

\* The definition of the helper is all there is.
Defining ==
    /\ out = <<>>
    /\ \/ input = <<>> /\ current.kind = "helper"
       \/ Len(input) = 1 /\ input[1].kind = "helper" /\ current = NoLine

\* The line is the last that was written, and it has a sentinel to come.
LastLine(id) ==
    \/ input # <<>> /\ input[Len(input)].id = id /\ input[Len(input)].kind \notin NoSentinel
    \/ input = <<>> /\ current.id = id /\ current.kind \notin NoSentinel
    \/ input = <<>> /\ current = NoLine /\ out # <<>> /\ out[Len(out)].of = id /\ out[Len(out)].what = "end"

\* What is waited for is the last line written, and what is over is over.
Piped ==
    /\ waiting # NoLine => LastLine(waiting.id)
    /\ pending # NoLine => LastLine(pending.id)
    /\ waiting = NoLine /\ pending = NoLine =>
          /\ plan = <<"verify", "query">> => Quiet \/ Defining
          /\ plan = <<>> \/ Head(plan) = "await" =>
                IF InProgress /\ engine.line \notin loose THEN LastLine(engine.line) ELSE Quiet
          /\ plan # <<>> /\ Head(plan) \in {"cwd", "git", "env", "query", "helper"} => Quiet

\* All this as long as nothing has upset the order.
PipeInv == ~ upset => Plain /\ Awaited /\ Piped

\* Output read without an answer to the program.
CalmRead == ReadCommandOutput /\ input' = input

\* The calm steps.
CalmClient ==
    \/ StartCommand \/ CalmRead \/ WriteHelper \/ Execute \/ ReadChunk
    \/ PollInit \/ PressTab \/ AwaitOver \/ ResetEngine
\* And those of bash.
CalmBash == (StartLine \/ PrintText \/ EndLine) /\ UNCHANGED clientVars

\* A step that upsets nothing is a calm one.
LEMMA CalmNext ==
    ASSUME PipeInv, TypeInv, Moves, ~ upset'
    PROVE  ~ upset /\ Plain /\ Awaited /\ Piped /\ (CalmClient \/ CalmBash)
<1>1. ~ (CtrlCRunning \/ ActivityTimeout \/ CtrlCAtPrompt \/ (ForwardKey /\ input' # input) \/ ExecuteTimeout
          \/ LeaveJob \/ BashDies)
  BY DEF CtrlCRunning, ActivityTimeout, CtrlCAtPrompt, ForwardKey, ExecuteTimeout, LeaveJob, BashDies, Event
<1>r. ReadCommandOutput => CalmRead /\ upset' = upset
  BY ReadEffect DEF CalmRead, TypeInv
<1>2. CalmClient \/ CalmBash \/ (JobPrints /\ UNCHANGED clientVars)
  BY <1>1, <1>r DEF Moves, BashStep, CalmClient, CalmBash
<1>3. upset' = upset
  BY <1>2, <1>r DEF CalmClient, CalmBash, CalmRead, StartCommand, WriteHelper, Execute, ReadChunk, PollInit, PressTab,
         AwaitOver, ResetEngine, bashVars, StartLine, Run, PrintText, EndLine, JobPrints
<1>4. Plain /\ Awaited /\ Piped
  BY <1>3 DEF PipeInv
<1>5. ~ JobPrints
  BY <1>4 DEF JobPrints, Plain
<1> QED
  BY <1>2, <1>3, <1>4, <1>5

\* A line whose sentinel is read has left nothing else in the terminal.
LEMMA LastRead ==
    ASSUME TypeInv, LineInv, StreamInv, NEW id, id \in Nat \ loose, LastLine(id), NEW n \in 0 .. Len(out),
           Ended(SubSeq(out, 1, n), id)
    PROVE  input = <<>> /\ current = NoLine /\ SubSeq(out, n + 1, Len(out)) = <<>> /\ n = Len(out)
<1>0. out \in Seq(Token) /\ input \in Seq(Line) /\ Len(out) \in Nat
  BY DEF TypeInv, Types
<1>1. Ended(out, id) /\ SpentIn(out, id) /\ id # current.id /\ id \notin Ids(input)
  BY <1>0, TokensLeft DEF StreamInv
<1>2. input # <<>> => input[Len(input)].id \in Ids(input)
  BY <1>0 DEF Ids
<1>3. input = <<>> /\ current = NoLine /\ out # <<>> /\ out[Len(out)].of = id /\ out[Len(out)].what = "end"
  BY <1>1, <1>2 DEF LastLine
<1>4. n = Len(out)
  <2> SUFFICES ASSUME n # Len(out) PROVE FALSE
    OBVIOUS
  <2>1. DOMAIN SubSeq(out, 1, n) = 1 .. n /\ \A i \in 1 .. n : SubSeq(out, 1, n)[i] = out[i]
    BY <1>0
  <2>2. PICK i \in 1 .. n : out[i].of = id /\ out[i].what = "end"
    BY <2>1 DEF Ended
  <2>3. i \in DOMAIN out /\ Len(out) \in DOMAIN out /\ i < Len(out)
    BY <1>0, <2>2
  <2> QED
    BY <1>1, <1>3, <2>2, <2>3 DEF SpentIn
<1>5. SubSeq(out, Len(out) + 1, Len(out)) = <<>>
  BY <1>0
<1> QED
  BY <1>3, <1>4, <1>5

\* One whose sentinel is not read is still the last.
LEMMA LastUnread ==
    ASSUME TypeInv, NEW id, LastLine(id), NEW n \in 0 .. Len(out), ~ Ended(SubSeq(out, 1, n), id),
           input' = input, current' = current, out' = SubSeq(out, n + 1, Len(out))
    PROVE  LastLine(id)'
<1>0. out \in Seq(Token) /\ Len(out) \in Nat
  BY DEF TypeInv, Types
<1>1. CASE out # <<>> /\ out[Len(out)].of = id /\ out[Len(out)].what = "end"
  <2>1. n # Len(out)
    <3> SUFFICES ASSUME n = Len(out) PROVE FALSE
      OBVIOUS
    <3>1. SubSeq(out, 1, n) = out /\ Len(out) \in DOMAIN out
      BY <1>0, <1>1
    <3> QED
      BY <1>1, <3>1 DEF Ended
  <2>2. /\ Len(out') = Len(out) - n /\ out' \in Seq(Token)
        /\ \A i \in 1 .. Len(out) - n : out'[i] = out[n + i]
    BY <1>0, Left
  <2>3. Len(out) - n \in 1 .. Len(out) - n /\ n + (Len(out) - n) = Len(out)
    BY <1>0, <2>1
  <2>4. out' # <<>> /\ out'[Len(out')] = out[Len(out)]
    <3> DEFINE k == Len(out) - n
    <3>1. k \in 1 .. k /\ Len(out') = k /\ n + k = Len(out) /\ (\A i \in 1 .. k : out'[i] = out[n + i])
      BY <2>2, <2>3
    <3> HIDE DEF k
    <3>2. out'[k] = out[n + k] /\ k # 0
      BY <3>1
    <3> QED
      BY <3>1, <3>2, <2>2
  <2> QED
    BY <1>1, <2>4 DEF LastLine
<1>2. CASE ~ (out # <<>> /\ out[Len(out)].of = id /\ out[Len(out)].what = "end")
  BY <1>2 DEF LastLine
<1> QED
  BY <1>1, <1>2

\* Bash gets on with it.
LEMMA LastRun ==
    ASSUME TypeInv, Plain, CalmBash, NEW id, LastLine(id)
    PROVE  LastLine(id)'
<1>0. out \in Seq(Token) /\ input \in Seq(Line) /\ current \in Line /\ dir \in Nat
  BY DEF TypeInv, Types
<1>1. CASE StartLine
  <2>1. current = NoLine /\ input # <<>> /\ current' = input[1] /\ input' = Tail(input) /\ out' = out
    <3>0. input # <<>> /\ current = NoLine /\ 1 \in DOMAIN input /\ Head(input) = input[1]
      BY <1>0, <1>1 DEF StartLine
    <3>1. Head(input) # Typed
      BY <3>0 DEF Plain, Typed
    <3>2. Run(Head(input), Tail(input))
      BY <1>1, <3>1 DEF StartLine
    <3> QED
      BY <3>0, <3>2 DEF Run
  <2>2. input[Len(input)].id = id /\ input[Len(input)].kind \notin NoSentinel
    BY <2>1 DEF LastLine
  <2>3. CASE Len(input) = 1
    <3>1. input' = <<>>
      BY <1>0, <2>1, <2>3
    <3> QED
      BY <2>1, <2>2, <2>3, <3>1 DEF LastLine
  <2>4. CASE Len(input) # 1
    <3> DEFINE k == Len(input) - 1
    <3>a. Len(input) \in Nat /\ Len(input) # 0 /\ input' \in Seq(Line) /\ Len(input') = k
          /\ \A i \in 1 .. k : input'[i] = input[i + 1]
      BY <1>0, <2>1, HeadTailProperties
    <3>b. k \in 1 .. k /\ k + 1 = Len(input)
      BY <2>4, <3>a
    <3> HIDE DEF k
    <3>c. input'[k] = input[k + 1] /\ k # 0
      BY <3>a, <3>b
    <3>1. input' # <<>> /\ Len(input') = k /\ input'[k] = input[Len(input)]
      BY <3>a, <3>b, <3>c
    <3> QED
      BY <2>2, <3>1 DEF LastLine
  <2> QED
    BY <2>3, <2>4
<1>2. CASE PrintText
  BY <1>2 DEF PrintText, LastLine
<1>3. CASE EndLine
  <2>1. CASE input = <<>> /\ current.id = id /\ current.kind \notin NoSentinel
    <3> DEFINE t == End(current, printed)
    <3>1. t \in Token /\ t.of = id /\ t.what = "end"
      BY <1>0, <2>1 DEF End, Token, Line, TypeInv, Types
    <3>2. out' = Append(out, t) /\ input' = input /\ current' = NoLine
      BY <1>3, <2>1 DEF EndLine
    <3> HIDE DEF t
    <3>3. out' # <<>> /\ out'[Len(out')] = t
      BY <1>0, <3>1, <3>2
    <3> QED
      BY <2>1, <3>1, <3>2, <3>3 DEF LastLine
  <2>2. CASE input # <<>>
    BY <1>3, <2>2 DEF EndLine, LastLine
  <2> QED
    BY <1>3, <2>1, <2>2 DEF EndLine, LastLine
<1> QED
  BY <1>1, <1>2, <1>3 DEF CalmBash

\* A bash at rest does nothing, and the helper's definition leaves it at rest.
LEMMA QuietRun ==
    ASSUME TypeInv, CalmBash
    PROVE  ~ Quiet /\ (Defining => (Quiet \/ Defining)')
<1>0. input \in Seq(Line)
  BY DEF TypeInv, Types
<1>1. ~ Quiet
  BY DEF CalmBash, Quiet, StartLine, PrintText, EndLine
<1>2. ASSUME Defining PROVE (Quiet \/ Defining)'
  <2>1. CASE StartLine
    <3>1. Len(input) = 1 /\ input[1].kind = "helper" /\ out' = out /\ out = <<>> /\ input # <<>>
      BY <1>2, <2>1 DEF StartLine, Run, Defining
    <3>2. current' = input[1] /\ input' = <<>>
      BY <1>0, <2>1, <3>1 DEF StartLine, Run
    <3> QED
      BY <3>1, <3>2 DEF Defining
  <2>2. CASE PrintText
    BY <1>2, <2>2 DEF PrintText, Defining, Silent, NoLine
  <2>3. CASE EndLine
    BY <1>2, <2>3 DEF EndLine, Defining, NoSentinel, Quiet, NoLine
  <2> QED
    BY <2>1, <2>2, <2>3 DEF CalmBash
<1> QED
  BY <1>1, <1>2

\* What is done after what.
LEMMA PlanMore ==
    ASSUME NEW p \in Plans, p # <<>>
    PROVE  /\ Head(p) = "helper" => Tail(p) = <<"verify", "query">>
           /\ Head(p) = "verify" => p = <<"verify", "query">> /\ Tail(p) = <<"query">>
           /\ Head(p) = "source" => Tail(p) # <<>> /\ Head(Tail(p)) = "helper"
           /\ Head(p) = "query" => p = <<"query">> /\ Tail(p) = <<>>
           /\ Head(p) \in {"cwd", "git", "env"} => Tail(p) = <<>> \/ Head(Tail(p)) \in {"git", "env"}
<1>1. CASE p = <<"cwd", "git">>
  BY <1>1, Tails DEF Plans
<1>2. CASE p = <<"cwd", "git", "env">>
  BY <1>2, Tails DEF Plans
<1>3. CASE p = <<"git">> \/ p = <<"env">>
  BY <1>3, Tails DEF Plans
<1>9. CASE p = <<"query">>
  BY <1>9, Tails DEF Plans
<1>4. CASE p = <<"git", "env">>
  BY <1>4, Tails DEF Plans
<1>5. CASE p = <<"verify", "query">>
  BY <1>5, Tails DEF Plans
<1>6. CASE p = <<"helper", "verify", "query">>
  BY <1>6, Tails DEF Plans
<1>7. CASE p = <<"source", "helper", "verify", "query">>
  BY <1>7, Tails DEF Plans
<1>8. CASE p = <<"await", "query">>
  BY <1>8, Tails DEF Plans
<1> QED
  BY <1>1, <1>2, <1>3, <1>4, <1>5, <1>6, <1>7, <1>8, <1>9 DEF Plans

\* Which plan begins with which step.
LEMMA Heads ==
    /\ <<"query">> # <<>> /\ Head(<<"query">>) = "query"
    /\ <<"verify", "query">> # <<>> /\ Head(<<"verify", "query">>) = "verify"
    /\ <<"await", "query">> # <<>> /\ Head(<<"await", "query">>) = "await"
    /\ InitSteps \o <<"query">> # <<>> /\ Head(InitSteps \o <<"query">>) = "source"
    /\ \A line : AfterCommand(line) # <<>> /\ Head(AfterCommand(line)) = "cwd"
<1>1. InitSteps \o <<"query">> = <<"source", "helper", "verify", "query">>
  BY PlansMade
<1>2. Head(<<"source", "helper", "verify", "query">>) = "source" /\ <<"source", "helper", "verify", "query">> # <<>>
  BY Tails
<1>3. \A line : AfterCommand(line) \in {<<"cwd", "git">>, <<"cwd", "git", "env">>}
  BY PlansMade
<1>4. /\ Head(<<"cwd", "git">>) = "cwd" /\ Head(<<"cwd", "git", "env">>) = "cwd"
      /\ <<"cwd", "git">> # <<>> /\ <<"cwd", "git", "env">> # <<>>
  BY Tails
<1> QED
  BY <1>1, <1>2, <1>3, <1>4, Tails

\* A line written is the last.
LEMMA LastWritten ==
    ASSUME NEW s \in Seq(Line), NEW line \in Line, line.kind \notin NoSentinel, input' = Append(s, line)
    PROVE  LastLine(line.id)'
<1>1. input' # <<>> /\ input'[Len(input')] = line
  BY Behind
<1> QED
  BY <1>1 DEF LastLine

\* Who is waited for when: the event loop blocks in one thing at a time.
LEMMA Waits ==
    ASSUME TypeInv
    PROVE  /\ pending # NoLine => plan = <<>> /\ waiting = NoLine
           /\ plan = <<>> => waiting = NoLine
           /\ plan # <<>> => pending = NoLine
           /\ plan # <<>> /\ Head(plan) \in {"helper", "await"} => waiting = NoLine
           /\ waiting # NoLine => plan # <<>> /\ waiting.kind = Head(plan)
           /\ InProgress /\ engine.line \notin loose => pending = NoLine /\ waiting = NoLine
BY DEF TypeInv, Control

\* Bash takes the lines one by one.
LEMMA PlainRun ==
    ASSUME Types, Plain, StartLine
    PROVE  /\ Run(input[1], Tail(input)) /\ current = NoLine /\ input # <<>> /\ 1 \in DOMAIN input /\ input[1] \in Line
           /\ input' = Tail(input) /\ current' = input[1] /\ input' \in Seq(Line) /\ Len(input') = Len(input) - 1
           /\ \A i \in DOMAIN input' : i + 1 \in DOMAIN input /\ input'[i] = input[i + 1]
<1>1. current = NoLine /\ input # <<>> /\ input \in Seq(Line) /\ 1 \in DOMAIN input /\ Head(input) = input[1]
  BY DEF StartLine, Types
<1>2. Head(input) # Typed
  BY <1>1 DEF Plain, Typed
<1>3. Run(input[1], Tail(input))
  BY <1>1, <1>2 DEF StartLine
<1>4. input' = Tail(input) /\ current' = input[1]
  BY <1>3 DEF Run
<1>5. /\ Tail(input) \in Seq(Line) /\ Len(Tail(input)) = Len(input) - 1
      /\ \A i \in 1 .. Len(Tail(input)) : Tail(input)[i] = input[i + 1]
  BY <1>1, HeadTailProperties
<1>6. ASSUME NEW i \in DOMAIN input' PROVE i + 1 \in DOMAIN input /\ input'[i] = input[i + 1]
  BY <1>1, <1>4, <1>5
<1> QED
  BY <1>1, <1>3, <1>4, <1>5, <1>6

\* Calm steps keep the terminal plain.
LEMMA PlainStep ==
    ASSUME TypeInv, Plain, CalmClient \/ CalmBash
    PROVE  Plain'
<1> DEFINE P(line) == line.kind \notin {"typed", "spoiled"}
<1>0. Types /\ input \in Seq(Line) /\ alive /\ jobs = {} /\ \A i \in DOMAIN input : P(input[i])
  BY DEF TypeInv, Types, Plain
<1>1. ASSUME NEW s \in Seq(Line), NEW line \in Line, P(line), \A i \in DOMAIN s : P(s[i])
      PROVE  \A i \in DOMAIN Append(s, line) : P(Append(s, line)[i])
  BY <1>1, Behind
<1>2. \A kind \in Kinds : /\ New(1, kind) \in Line /\ New(1, kind).kind = kind
                          /\ New(2, kind) \in Line /\ New(2, kind).kind = kind
  BY <1>0, Newed DEF Types
<1>3. alive' = alive /\ jobs' = jobs
  BY DEF CalmClient, CalmBash, StartCommand, CalmRead, ReadCommandOutput, WriteHelper, Execute, ReadChunk,
       PollInit, PressTab,
         AwaitOver, ResetEngine, bashVars, StartLine, Run, PrintText, EndLine, BashKeeps
<1>4. engine'.state # "NotStarted"
  <2>1. CASE PollInit
    BY <1>0, <2>1, PollEffect, EngineFields DEF Plain
  <2>2. CASE ResetEngine
    BY <1>0, <2>2, ResetEffect, EngineFields
  <2>3. CASE ReadChunk
    BY <2>3, EngineFields DEF ReadChunk, Return, Plain
  <2>4. CASE ~ (PollInit \/ ResetEngine \/ ReadChunk)
    BY <2>4 DEF CalmClient, CalmBash, StartCommand, CalmRead, ReadCommandOutput, WriteHelper, Execute, PressTab, AwaitOver,
           clientVars, Plain
  <2> QED
    BY <2>1, <2>2, <2>3, <2>4
<1>5. \A i \in DOMAIN input' : P(input'[i])
  <2>1. CASE StartCommand
    <3>1. PICK kind \in {"user", "cd"} : input' = Append(input, New(1, kind))
      BY <1>0, <2>1, StartEffect
    <3>2. New(1, kind) \in Line /\ P(New(1, kind))
      BY <1>2, <3>1 DEF Kinds
    <3> HIDE DEF P
    <3> QED
      BY <1>0, <1>1, <3>1, <3>2
  <2>2. CASE WriteHelper
    <3>1. input' = Append(input, New(1, "helper")) /\ New(1, "helper") \in Line /\ P(New(1, "helper"))
      BY <1>0, <1>2, <2>2, WriteHelperEffect DEF Kinds
    <3> HIDE DEF P
    <3> QED
      BY <1>0, <1>1, <3>1
  <2>3. CASE Execute
    <3>1. input' = Append(input, New(1, Head(plan))) /\ Head(plan) \in {"cwd", "git", "env", "query", "verify", "source"}
      BY <1>0, <2>3, ExecuteEffect
    <3>2. New(1, Head(plan)) \in Line /\ P(New(1, Head(plan)))
      BY <1>2, <3>1 DEF Kinds
    <3> HIDE DEF P
    <3> QED
      BY <1>0, <1>1, <3>1, <3>2
  <2>4. CASE PollInit
    <3>1. input' = input \/ input' = Append(Append(input, New(1, "helper")), New(2, "verify"))
      BY <1>0, <2>4, PollEffect
    <3>2. /\ New(1, "helper") \in Line /\ P(New(1, "helper"))
          /\ New(2, "verify") \in Line /\ P(New(2, "verify"))
      BY <1>2 DEF Kinds
    <3>3. Append(input, New(1, "helper")) \in Seq(Line)
      BY <1>0, <3>2
    <3> HIDE DEF P
    <3> QED
      BY <1>0, <1>1, <3>1, <3>2, <3>3
  <2>5. CASE ResetEngine
    <3>1. input' = Append(input, New(1, "source")) /\ New(1, "source") \in Line /\ P(New(1, "source"))
      BY <1>0, <1>2, <2>5, ResetEffect DEF Kinds
    <3> HIDE DEF P
    <3> QED
      BY <1>0, <1>1, <3>1
  <2>6. CASE StartLine
    <3>1. \A i \in DOMAIN input' : i + 1 \in DOMAIN input /\ input'[i] = input[i + 1]
      BY <1>0, <2>6, PlainRun
    <3> HIDE DEF P
    <3> QED
      BY <1>0, <3>1
  <2>7. CASE CalmRead \/ ReadChunk \/ PressTab \/ AwaitOver \/ PrintText \/ EndLine
    <3>1. input' = input
      BY <2>7 DEF CalmRead, ReadCommandOutput, ReadChunk, PressTab, AwaitOver, PrintText, EndLine, bashVars
    <3> QED
      BY <1>0, <3>1
  <2> QED
    BY <2>1, <2>2, <2>3, <2>4, <2>5, <2>6, <2>7 DEF CalmClient, CalmBash
<1>6. current'.kind \notin {"typed", "spoiled"}
  <2>1. CASE StartLine
    BY <1>0, <2>1, PlainRun
  <2>2. CASE ~ StartLine
    <3>1. current' \in {current, NoLine}
      BY <2>2 DEF CalmClient, CalmBash, StartCommand, CalmRead, ReadCommandOutput, WriteHelper, Execute, ReadChunk, PollInit,
             PressTab, AwaitOver, ResetEngine, bashVars, PrintText, EndLine, BashKeeps
    <3> QED
      BY <3>1 DEF Plain, NoLine
  <2> QED
    BY <2>1, <2>2
<1> QED
  BY <1>0, <1>3, <1>4, <1>5, <1>6 DEF Plain

\* What is waited for stays apart from what nobody waits for any more.
LEMMA AwaitedStep ==
    ASSUME TypeInv, TypeInv', Awaited, CalmClient \/ CalmBash
    PROVE  Awaited'
<1>0. Types /\ sent \in Nat /\ loose \subseteq 0 .. sent /\ engine.line \in 0 .. sent /\ (InProgress => engine.line # 0)
  BY DEF TypeInv, Types, Numbers, InProgress
<1>1. CASE StartCommand
  <2>1. pending' = NoLine \/ pending'.id = sent + 1
    <3>1. PICK kind \in {"user", "cd"} : pending' = (IF alive THEN New(1, kind) ELSE NoLine)
      BY <1>0, <1>1, StartEffect
    <3> QED
      BY <3>1 DEF New
  <2>2. loose' \subseteq loose \cup {engine.line} /\ waiting' = NoLine
    BY <1>1, Waits DEF StartCommand, Overrun, Free
  <2> QED
    BY <1>0, <2>1, <2>2 DEF Awaited
<1>2. CASE CalmRead
  <2>1. loose' = loose /\ waiting' = waiting /\ engine' = engine /\ (pending' = pending \/ pending' = NoLine)
    BY <1>0, <1>2, ReadEffect DEF CalmRead
  <2> QED
    BY <2>1 DEF Awaited
<1>3. CASE WriteHelper
  BY <1>3 DEF WriteHelper, Awaited
<1>4. CASE Execute
  <2>1. waiting'.id = sent + 1
    BY <1>0, <1>4, ExecuteEffect DEF New
  <2>2. loose' = loose /\ engine' = engine /\ pending' = pending
    BY <1>4 DEF Execute
  <2> QED
    BY <1>0, <2>1, <2>2 DEF Awaited
<1>5. CASE ReadChunk
  <2>1. loose' = loose /\ pending' = pending /\ (waiting' = NoLine \/ (waiting' = waiting /\ engine' = engine))
    BY <1>5 DEF ReadChunk, Return
  <2> QED
    BY <2>1 DEF Awaited
<1>6. CASE PollInit
  <2>1. loose' = loose /\ pending' = NoLine /\ waiting' = NoLine
    BY <1>6, Waits DEF PollInit, Polls
  <2> QED
    BY <2>1 DEF Awaited
<1>7. CASE PressTab
  BY <1>7 DEF PressTab, Awaited, bashVars
<1>8. CASE AwaitOver \/ ResetEngine
  <2>1. pending' = NoLine /\ waiting' = NoLine
    BY <1>8, Waits DEF AwaitOver, ResetEngine, Free
  <2> QED
    BY <2>1 DEF Awaited
<1>9. CASE CalmBash
  BY <1>9 DEF CalmBash, clientVars, StartLine, Run, PrintText, EndLine, Awaited
<1> QED
  BY <1>1, <1>2, <1>3, <1>4, <1>5, <1>6, <1>7, <1>8, <1>9 DEF CalmClient

\* The engine's line is read for, or the terminal is at rest.
LEMMA AtRest ==
    ASSUME TypeInv, Piped, waiting = NoLine, pending = NoLine, plan = <<>> \/ Head(plan) = "await"
    PROVE  /\ InProgress /\ engine.line \notin loose => LastLine(engine.line)
           /\ ~ (InProgress /\ engine.line \notin loose) => Quiet
BY DEF Piped

\* The end of the output is kept.
LEMMA KeptEnd ==
    ASSUME Types, NEW n \in 0 .. Len(acc \o out) - 1, NEW id,
           out # <<>>, out[Len(out)].of = id, out[Len(out)].what = "end"
    PROVE  Ended(Kept(n), id)
<1> DEFINE s == acc \o out
           m == Len(s)
           r == Kept(n)
           k == m - n
<1>1. acc \in Seq(Token) /\ out \in Seq(Token) /\ Len(out) \in 1 .. Len(out)
  BY DEF Types
<1>2. s \in Seq(Token) /\ m = Len(acc) + Len(out) /\ s[Len(acc) + Len(out)] = out[Len(out)]
  BY <1>1
<1>3. r = SubSeq(s, n + 1, m)
  BY DEF Kept
<1> HIDE DEF s, r
<1>4. n \in 0 .. m /\ k \in 1 .. k /\ n + k = m
  BY <1>2 DEF s
<1>5. r \in Seq(Token) /\ Len(r) = k /\ \A i \in 1 .. k : r[i] = s[n + i]
  BY <1>2, <1>3, <1>4, Left
<1> HIDE DEF m, k
<1>6. k \in DOMAIN r /\ r[k] = s[m]
  BY <1>4, <1>5
<1>7. r[k].of = id /\ r[k].what = "end"
  BY <1>2, <1>6
<1>8. Ended(r, id)
  BY <1>6, <1>7 DEF Ended
<1> QED
  BY <1>8 DEF r

\* With its sentinel read the command has left bash at rest; without, it still is the last line.
LEMMA CalmReads ==
    ASSUME TypeInv, LineInv, StreamInv, Awaited, Piped, CalmRead
    PROVE  /\ pending # NoLine /\ waiting = NoLine /\ waiting' = NoLine /\ out' = <<>>
           /\ UNCHANGED <<input, current, dir, cwd, engine, helper, loose>>
           /\ \/ /\ pending' = NoLine /\ plan' # <<>> /\ Head(plan') = "cwd"
                 /\ input = <<>> /\ current = NoLine
              \/ pending' = pending /\ plan' = plan /\ LastLine(pending.id)'
<1>0. /\ Types /\ out \in Seq(Token) /\ acc \in Seq(Token) /\ pending.id \in Nat
      /\ SubSeq(out, 1, Len(out)) = out /\ Len(out) \in 0 .. Len(out)
  BY DEF TypeInv, Types, Line
<1>1. /\ pending # NoLine /\ waiting = NoLine /\ waiting' = waiting /\ out' = <<>>
      /\ UNCHANGED <<input, current, dir, cwd, engine, helper, loose>>
  BY <1>0, Waits, ReadEffect DEF CalmRead
<1>2. PICK id \in Nat \ loose : id = pending.id /\ LastLine(id)
  BY <1>0, <1>1 DEF Piped, Awaited
<1>3. PICK n \in 0 .. Len(acc \o out) - 1 :
         IF Ended(Kept(n), id) THEN plan' = AfterCommand(pending) /\ pending' = NoLine
         ELSE plan' = plan /\ pending' = pending
  BY <1>0, <1>2, ReadEffect DEF CalmRead
<1>4. CASE Ended(Kept(n), id)
  <2>1. PICK ts \in Seq(Token) : ts = acc \o out
    BY <1>0, TokensBehind
  <2>2. n \in 0 .. Len(ts) /\ Kept(n) = SubSeq(ts, n + 1, Len(ts))
    BY <1>3, <2>1 DEF Kept
  <2>3. Ended(ts, id)
    BY <1>4, <2>2, TokensLeft
  <2>4. Ended(out, id)
    BY <1>0, <1>1, <1>2, <2>1, <2>3, TokensBehind DEF StreamInv
  <2>5. input = <<>> /\ current = NoLine
    BY <1>0, <1>2, <2>4, LastRead
  <2> QED
    BY <1>1, <1>3, <1>4, <2>5, Heads
<1>5. CASE ~ Ended(Kept(n), id)
  <2>1. ~ (out # <<>> /\ out[Len(out)].of = id /\ out[Len(out)].what = "end")
    BY <1>0, <1>3, <1>5, KeptEnd
  <2>2. LastLine(id)'
    BY <1>1, <1>2, <2>1 DEF LastLine
  <2>3. pending' = pending /\ plan' = plan
    BY <1>3, <1>5
  <2> QED
    BY <1>1, <1>2, <2>2, <2>3
<1> QED
  BY <1>4, <1>5

\* What was the last line written still is, or has ended and left nothing.
LEMMA PipedStep ==
    ASSUME TypeInv, TypeInv', LineInv, StreamInv, Plain, Awaited, Piped, CalmClient \/ CalmBash
    PROVE  Piped'
<1>0. /\ Types /\ sent \in Nat /\ loose \subseteq 0 .. sent /\ input \in Seq(Line) /\ out \in Seq(Token) /\ alive
      /\ pending.id \in Nat /\ waiting.id \in Nat /\ engine.line \in Nat /\ buf \in Seq(Token) /\ acc \in Seq(Token)
      /\ plan \in Plans
  BY DEF TypeInv, Types, Numbers, Plain, Line
<1>w. \A kind \in Kinds : /\ New(1, kind) \in Line /\ New(1, kind).kind = kind /\ New(1, kind).id = sent + 1
                          /\ New(2, kind) \in Line /\ New(2, kind).kind = kind /\ New(2, kind).id = sent + 2
  BY <1>0, Newed
<1>n. SubSeq(out, Len(out) + 1, Len(out)) = <<>> /\ SubSeq(out, 1, Len(out)) = out /\ Len(out) \in 0 .. Len(out)
  BY <1>0
<1>1. CASE StartCommand
  <2>1. PICK kind \in {"user", "cd"} : input' = Append(input, New(1, kind)) /\ pending' = New(1, kind)
    BY <1>0, <1>1, StartEffect
  <2>2. New(1, kind) \in Line /\ New(1, kind).kind = kind
    BY <1>w, <2>1 DEF Kinds
  <2>4. LastLine(pending.id)'
    BY <1>0, <2>1, <2>2, LastWritten DEF NoSentinel
  <2>5. waiting' = NoLine /\ pending' # NoLine
    BY <1>1, <2>1, <2>2, Waits DEF StartCommand, Free, NoLine
  <2> QED
    BY <2>4, <2>5 DEF Piped
<1>2. CASE CalmRead
  <2>1. /\ waiting' = NoLine /\ out' = <<>> /\ input' = input /\ current' = current
        /\ \/ /\ pending' = NoLine /\ plan' # <<>> /\ Head(plan') = "cwd"
              /\ input = <<>> /\ current = NoLine
           \/ pending' = pending /\ pending # NoLine /\ LastLine(pending.id)'
    BY <1>2, CalmReads
  <2>2. input = <<>> /\ current = NoLine => Quiet'
    BY <2>1 DEF Quiet
  <2> QED
    BY <2>1, <2>2, Heads DEF Piped
<1>3. CASE WriteHelper
  <2>1. /\ plan # <<>> /\ Head(plan) = "helper" /\ plan' = Tail(plan)
        /\ input' = Append(input, New(1, "helper")) /\ New(1, "helper") \in Line /\ New(1, "helper").kind = "helper"
    BY <1>0, <1>3, <1>w, WriteHelperEffect DEF Kinds
  <2>2. waiting = NoLine /\ pending = NoLine /\ plan' = <<"verify", "query">>
    BY <1>0, <2>1, Waits, PlanMore
  <2>3. Quiet
    BY <2>1, <2>2 DEF Piped
  <2>4. waiting' = NoLine /\ pending' = NoLine /\ out' = <<>> /\ current' = NoLine
    BY <1>3, <2>2, <2>3 DEF WriteHelper, BashKeeps, Quiet
  <2>5. Len(input') = 1 /\ input'[1] = New(1, "helper")
    BY <1>0, <2>1, <2>3 DEF Quiet
  <2>6. Defining'
    BY <2>1, <2>4, <2>5 DEF Defining
  <2> QED
    BY <2>2, <2>4, <2>6, Heads DEF Piped
<1>4. CASE Execute
  <2>1. /\ plan # <<>> /\ Head(plan) \in {"cwd", "git", "env", "query", "verify", "source"}
        /\ input' = Append(input, New(1, Head(plan))) /\ waiting' = New(1, Head(plan))
    BY <1>0, <1>4, ExecuteEffect
  <2>2. Head(plan) \in Kinds /\ Head(plan) \notin NoSentinel /\ Head(plan) # "none"
    BY <2>1 DEF Kinds, NoSentinel
  <2> DEFINE line == New(1, Head(plan))
  <2>3. line \in Line /\ line.kind = Head(plan)
    BY <1>w, <2>2
  <2> HIDE DEF line
  <2>4. input' = Append(input, line) /\ waiting' = line
    BY <2>1 DEF line
  <2>6. LastLine(waiting.id)'
    BY <1>0, <2>2, <2>3, <2>4, LastWritten
  <2>7. pending' = NoLine /\ waiting' # NoLine
    BY <1>4, <2>1, <2>2, <2>3, <2>4, Waits DEF Execute, NoLine
  <2> QED
    BY <2>6, <2>7 DEF Piped
<1>5. CASE ReadChunk
  <2>1. waiting # NoLine /\ pending = NoLine /\ plan # <<>> /\ waiting.kind = Head(plan)
      /\ Head(plan) \notin {"helper", "await"}
    BY <1>5, Waits DEF ReadChunk
  <2>2. LastLine(waiting.id) /\ waiting.id \in Nat \ loose
    BY <1>0, <2>1 DEF Piped, Awaited
  <2>3. ~ (InProgress /\ engine.line \notin loose)
    BY <2>1, Waits
  <2>4. PICK n \in 1 .. Len(out) :
           /\ out' = SubSeq(out, n + 1, Len(out))
           /\ IF Ended(buf \o SubSeq(out, 1, n), waiting.id) THEN Return(buf \o SubSeq(out, 1, n), TRUE)
              ELSE UNCHANGED <<plan, waiting, cwd, candidates, engine>>
    BY <1>5 DEF ReadChunk
  <2>5. pending' = NoLine /\ input' = input /\ current' = current /\ loose' = loose
    BY <1>5, <2>1 DEF ReadChunk, BashKeeps
  <2>6. n \in 0 .. Len(out) /\ SubSeq(out, 1, n) \in Seq(Token)
    BY <1>0
  <2>7. CASE Ended(buf \o SubSeq(out, 1, n), waiting.id)
    <3>1. Ended(SubSeq(out, 1, n), waiting.id)
      BY <1>0, <2>1, <2>6, <2>7, TokensBehind DEF StreamInv
    <3>2. input = <<>> /\ current = NoLine /\ SubSeq(out, n + 1, Len(out)) = <<>>
      BY <2>2, <2>6, <3>1, LastRead
    <3>3. Quiet'
      BY <2>4, <2>5, <3>2 DEF Quiet
    <3>4. plan' = Tail(plan) /\ waiting' = NoLine /\ (engine' = engine \/ engine' = Engine("Ready", NoLine))
      BY <2>4, <2>7 DEF Return
    <3>5. ~ (InProgress /\ engine.line \notin loose)'
      BY <2>3, <2>5, <3>4, EngineFields DEF InProgress
    <3> QED
      BY <2>5, <3>3, <3>4, <3>5 DEF Piped
  <2>8. CASE ~ Ended(buf \o SubSeq(out, 1, n), waiting.id)
    <3>1. ~ Ended(SubSeq(out, 1, n), waiting.id) /\ waiting' = waiting
      BY <1>0, <2>4, <2>6, <2>8, TokensBehind
    <3>2. LastLine(waiting.id)'
      BY <2>2, <2>4, <2>5, <2>6, <3>1, LastUnread
    <3> QED
      BY <2>1, <2>5, <3>1, <3>2 DEF Piped
  <2> QED
    BY <2>7, <2>8
<1>6. CASE PollInit
  <2>1. /\ InProgress /\ pending = NoLine /\ waiting = NoLine /\ out # <<>> /\ (plan = <<>> \/ Head(plan) = "await")
        /\ pending' = NoLine /\ waiting' = NoLine /\ plan' = plan /\ loose' = loose /\ current' = current /\ out' = <<>>
    BY <1>6, Waits DEF PollInit, Polls, BashKeeps
  <2>2. plan # <<"verify", "query">> /\ (plan # <<>> => Head(plan) \notin {"cwd", "git", "env", "query", "helper"})
    BY <2>1, Heads
  <2>3. engine.line \notin loose /\ LastLine(engine.line)
    BY <2>1, AtRest DEF Quiet
  <2>4. IF (InProgress /\ engine.line \notin loose)' THEN LastLine(engine.line)' ELSE Quiet'
    <3>1. CASE ~ Ended(out, engine.line)
      <4>1. engine' = engine /\ input' = input
        BY <1>0, <1>6, <3>1, PollEffect
      <4>2. LastLine(engine.line)'
        BY <1>0, <1>n, <2>1, <2>3, <3>1, <4>1, LastUnread
      <4> QED
        BY <2>1, <2>3, <4>1, <4>2 DEF InProgress
    <3>2. CASE Ended(out, engine.line) /\ engine.state = "DefiningHelper"
      <4>1. engine' = Engine("Ready", NoLine) /\ input' = input
        BY <1>0, <1>6, <3>2, PollEffect
      <4>2. input = <<>> /\ current = NoLine
        BY <1>0, <1>n, <2>3, <3>2, LastRead
      <4> QED
        BY <2>1, <4>1, <4>2, EngineFields DEF InProgress, Quiet
    <3>3. CASE Ended(out, engine.line) /\ engine.state # "DefiningHelper"
      <4>1. /\ input' = Append(Append(input, New(1, "helper")), New(2, "verify"))
            /\ engine' = Engine("DefiningHelper", New(2, "verify"))
        BY <1>0, <1>6, <3>3, PollEffect
      <4>2. New(1, "helper") \in Line /\ New(2, "verify") \in Line /\ New(2, "verify").kind = "verify"
        BY <1>w DEF Kinds
      <4> DEFINE line == New(2, "verify")
                 s == Append(input, New(1, "helper"))
      <4>3. s \in Seq(Line) /\ line \in Line /\ line.kind \notin NoSentinel /\ input' = Append(s, line)
            /\ engine'.line = line.id
        BY <1>0, <4>1, <4>2, EngineFields DEF NoSentinel
      <4> HIDE DEF line, s
      <4>5. LastLine(engine.line)'
        BY <4>3, LastWritten
      <4>6. engine'.line = sent + 2 /\ engine'.line \notin loose' /\ engine'.state = "DefiningHelper"
        BY <1>0, <1>w, <2>1, <4>1, EngineFields DEF Kinds
      <4> QED
        BY <4>5, <4>6 DEF InProgress
    <3> QED
      BY <3>1, <3>2, <3>3
  <2> QED
    BY <2>1, <2>2, <2>4 DEF Piped
<1>7. CASE PressTab
  <2>1. plan = <<>> /\ pending = NoLine /\ waiting = NoLine /\ pending' = NoLine /\ waiting' = NoLine
    BY <1>7, Waits DEF PressTab, Free
  <2>2. UNCHANGED <<input, current, out, loose, engine>>
    BY <1>7 DEF PressTab, bashVars
  <2>3. engine.state \in {"Ready", "Sourcing", "DefiningHelper"}
    BY <1>0 DEF Types, Plain
  <2>4. plan' = IF engine.state = "Ready" THEN <<"query">> ELSE <<"await", "query">>
    BY <1>7, <2>3 DEF PressTab
  <2>5. CASE engine.state = "Ready"
    <3>1. Quiet'
      BY <2>1, <2>2, <2>5, AtRest DEF InProgress, Quiet
    <3> QED
      BY <2>1, <2>4, <2>5, <3>1, Heads DEF Piped
  <2>6. CASE engine.state # "Ready"
    <3>1. plan' # <<>> /\ Head(plan') = "await" /\ plan' # <<"verify", "query">>
      BY <2>4, <2>6, Heads
    <3>2. CASE InProgress /\ engine.line \notin loose
      <4>1. LastLine(engine.line)
        BY <2>1, <3>2, AtRest
      <4>2. LastLine(engine.line)'
        BY <2>2, <4>1 DEF LastLine
      <4> QED
        BY <2>1, <2>2, <3>1, <3>2, <4>2 DEF Piped, InProgress
    <3>3. CASE ~ (InProgress /\ engine.line \notin loose)
      <4>1. Quiet'
        BY <2>1, <2>2, <3>3, AtRest DEF Quiet
      <4> QED
        BY <2>1, <2>2, <3>1, <3>3, <4>1 DEF Piped, InProgress
    <3> QED
      BY <3>2, <3>3
  <2> QED
    BY <2>5, <2>6
<1>8. CASE AwaitOver
  <2>1. /\ plan # <<>> /\ Head(plan) = "await" /\ waiting = NoLine /\ pending = NoLine
        /\ waiting' = NoLine /\ pending' = NoLine
        /\ input' = input /\ current' = current /\ out' = out
        /\ plan' = IF engine.state = "Ready" THEN Tail(plan) ELSE InitSteps \o Tail(plan)
    BY <1>8, Waits DEF AwaitOver, BashKeeps
  <2>2. Tail(plan) = <<"query">>
    BY <1>0, <2>1, PlanFacts
  <2>3. CASE engine.state = "Ready"
    <3>1. Quiet'
      BY <2>1, <2>3, AtRest DEF InProgress, Quiet
    <3> QED
      BY <2>1, <2>2, <2>3, <3>1, Heads DEF Piped
  <2>4. CASE engine.state # "Ready"
    <3>1. plan' # <<>> /\ Head(plan') = "source" /\ plan' # <<"verify", "query">>
      BY <2>1, <2>2, <2>4, Heads
    <3> QED
      BY <2>1, <3>1 DEF Piped
  <2> QED
    BY <2>3, <2>4
<1>9. CASE ResetEngine
  <2>1. plan = <<>> /\ waiting' = NoLine /\ pending' = NoLine /\ plan' = <<>>
    BY <1>9, Waits DEF ResetEngine, Free
  <2>2. input' = Append(input, New(1, "source")) /\ engine' = Engine("Sourcing", New(1, "source"))
    BY <1>0, <1>9, ResetEffect
  <2> DEFINE line == New(1, "source")
  <2>3. line \in Line /\ line.kind \notin NoSentinel /\ input' = Append(input, line) /\ engine'.line = line.id
    BY <1>w, <2>2, EngineFields DEF Kinds, NoSentinel
  <2>4. engine'.line = sent + 1 /\ engine'.state = "Sourcing"
    BY <1>w, <2>2, EngineFields DEF Kinds
  <2> HIDE DEF line
  <2>6. LastLine(engine.line)'
    BY <1>0, <2>3, LastWritten
  <2>7. loose' \subseteq loose \cup {engine.line} /\ engine.line <= sent
    BY <1>9 DEF ResetEngine, Overrun, TypeInv, Numbers
  <2>8. (InProgress /\ engine.line \notin loose)'
    BY <1>0, <2>4, <2>7 DEF InProgress
  <2> QED
    BY <2>1, <2>6, <2>8, Heads DEF Piped
<1>10. CASE CalmBash
  <2>1. clientVars' = clientVars /\ loose' = loose
    BY <1>10 DEF CalmBash, StartLine, Run, PrintText, EndLine, clientVars
  <2>2. ~ Quiet /\ (Defining => (Quiet \/ Defining)')
    BY <1>10, QuietRun
  <2>3. \A id : LastLine(id) => LastLine(id)'
    BY <1>10, LastRun
  <2>4. /\ waiting' = waiting /\ pending' = pending /\ plan' = plan /\ engine' = engine
        /\ waiting # NoLine => LastLine(waiting.id)'
        /\ pending # NoLine => LastLine(pending.id)'
    BY <2>1, <2>3 DEF Piped, clientVars
  <2>5. LastLine(engine.line) => LastLine(engine.line)'
    BY <2>3, <2>4
  <2> QED
    BY <2>1, <2>2, <2>3, <2>4, <2>5 DEF Piped, clientVars, InProgress
<1> QED
  BY <1>1, <1>2, <1>3, <1>4, <1>5, <1>6, <1>7, <1>8, <1>9, <1>10 DEF CalmClient

\* So every step keeps the order, or upsets it.
LEMMA PipeStep ==
    ASSUME TypeInv, TypeInv', LineInv, StreamInv, PipeInv, Moves
    PROVE  PipeInv'
<1> SUFFICES ASSUME ~ upset' PROVE Plain' /\ Awaited' /\ Piped'
  BY DEF PipeInv
<1>1. ~ upset /\ Plain /\ Awaited /\ Piped /\ (CalmClient \/ CalmBash)
  BY CalmNext
<1> QED
  BY <1>1, PlainStep, AwaitedStep, PipedStep

----------------------------------------------------------------------------
(* What the answers are then.                                              *)

\* A query's answer is its own.
Answering ==
    waiting.kind = "query" =>
        /\ Of(buf) \subseteq {waiting.id} /\ Of(out) \subseteq {waiting.id} /\ Ids(input) \subseteq {waiting.id}
        /\ current = NoLine \/ current.id = waiting.id

\* The directory's answer, from the line written to the text and the sentinel.
Telling ==
    waiting.kind = "cwd" =>
        \/ input = <<waiting>> /\ current = NoLine /\ buf \o out = <<>>
        \/ input = <<>> /\ current = waiting /\ printed = 0 /\ buf \o out = <<>>
        \/ input = <<>> /\ current = waiting /\ printed = 1 /\ buf \o out = <<Text(waiting, dir)>>
        \/ input = <<>> /\ current = NoLine /\ buf \o out = <<Text(waiting, dir), End(waiting, 1)>>

\* Only a command that is followed changes the directory, and it is asked for
\* afterwards.
Bearings ==
    /\ \A i \in DOMAIN input : input[i].kind = "cd" => pending # NoLine
    /\ pending = NoLine /\ (plan # <<>> => Head(plan) # "cwd") => cwd = dir

\* The helper's definition has run or is ahead of what needs it.
Defined == helper \/ \E i \in DOMAIN input : input[i].kind = "helper"

\* A query runs after the helper's definition.
Helped ==
    /\ engine.state \in {"DefiningHelper", "Ready"} \/ plan \in {<<"query">>, <<"verify", "query">>} => Defined
    /\ current.kind = "query" => helper
    /\ \A i \in DOMAIN input : input[i].kind = "query" => helper

\* What is offered comes from one line that nothing else is expected of.
Offered ==
    /\ \E c \in 0 .. sent : candidates \subseteq {c}
    /\ candidates \cap (loose \cup {engine.line}) = {}

\* All this, too, as long as nothing has upset the order.
CalmInv == ~ upset => Answering /\ Telling /\ Bearings /\ Helped /\ Offered

\* A line put behind others leaves them where they are.
LEMMA LineLonger ==
    ASSUME NEW s \in Seq(Line), NEW line \in Line
    PROVE  /\ Append(s, line) \in Seq(Line)
           /\ \A i \in DOMAIN s : i \in DOMAIN Append(s, line) /\ Append(s, line)[i] = s[i]
           /\ \A i \in DOMAIN Append(s, line) \ DOMAIN s : Append(s, line)[i] = line
           /\ \E i \in DOMAIN Append(s, line) : Append(s, line)[i] = line
<1>1. Len(s) + 1 \in DOMAIN Append(s, line) /\ DOMAIN s = 1 .. Len(s) /\ DOMAIN Append(s, line) = 1 .. Len(s) + 1
  OBVIOUS
<1> QED
  BY <1>1, Behind

\* What a calm client adds to the terminal's lines.
LEMMA CalmInput ==
    ASSUME TypeInv, Plain, CalmClient
    PROVE  /\ \A i \in DOMAIN input : i \in DOMAIN input' /\ input'[i] = input[i]
           /\ \A i \in DOMAIN input' \ DOMAIN input : /\ input'[i].kind = "cd" => StartCommand
                                                      /\ input'[i].kind = "query" => Execute /\ Head(plan) = "query"
<1>0. Types /\ input \in Seq(Line) /\ alive /\ sent \in Nat
  BY DEF TypeInv, Types, Plain
<1>w. \A kind \in Kinds : /\ New(1, kind) \in Line /\ New(1, kind).kind = kind
                          /\ New(2, kind) \in Line /\ New(2, kind).kind = kind
  BY <1>0, Newed
<1>1. CASE StartCommand
  <2>1. PICK kind \in {"user", "cd"} : input' = Append(input, New(1, kind))
    BY <1>0, <1>1, StartEffect
  <2>2. New(1, kind) \in Line /\ New(1, kind).kind # "query"
    BY <1>w, <2>1 DEF Kinds
  <2> QED
    BY <1>0, <1>1, <2>1, <2>2, LineLonger
<1>2. CASE WriteHelper
  <2>1. input' = Append(input, New(1, "helper")) /\ New(1, "helper") \in Line /\ New(1, "helper").kind = "helper"
    BY <1>0, <1>2, <1>w, WriteHelperEffect DEF Kinds
  <2> QED
    BY <1>0, <2>1, LineLonger
<1>3. CASE Execute
  <2>1. input' = Append(input, New(1, Head(plan))) /\ Head(plan) \in {"cwd", "git", "env", "query", "verify", "source"}
    BY <1>0, <1>3, ExecuteEffect
  <2>2. New(1, Head(plan)) \in Line /\ New(1, Head(plan)).kind = Head(plan) /\ Head(plan) # "cd"
    BY <1>w, <2>1 DEF Kinds
  <2> QED
    BY <1>0, <1>3, <2>1, <2>2, LineLonger
<1>4. CASE PollInit
  <2>1. input' = input \/ input' = Append(Append(input, New(1, "helper")), New(2, "verify"))
    BY <1>0, <1>4, PollEffect
  <2>2. CASE input' = input
    BY <2>2
  <2>3. CASE input' # input
    <3> DEFINE h == New(1, "helper")
               v == New(2, "verify")
               s == Append(input, h)
    <3>1. h \in Line /\ h.kind = "helper" /\ v \in Line /\ v.kind = "verify" /\ input' = Append(s, v)
      BY <1>w, <2>1, <2>3 DEF Kinds
    <3>2. s = Append(input, h)
      OBVIOUS
    <3> HIDE DEF h, v, s
    <3>3. /\ s \in Seq(Line)
          /\ \A i \in DOMAIN input : i \in DOMAIN s /\ s[i] = input[i]
          /\ \A i \in DOMAIN s \ DOMAIN input : s[i] = h
      BY <1>0, <3>1, <3>2, LineLonger
    <3>4. /\ \A i \in DOMAIN s : i \in DOMAIN input' /\ input'[i] = s[i]
          /\ \A i \in DOMAIN input' \ DOMAIN s : input'[i] = v
      BY <3>1, <3>3, LineLonger
    <3>5. ASSUME NEW i \in DOMAIN input' \ DOMAIN input PROVE input'[i] = h \/ input'[i] = v
      BY <3>3, <3>4
    <3> QED
      BY <3>1, <3>3, <3>4, <3>5
  <2> QED
    BY <2>2, <2>3
<1>5. CASE ResetEngine
  <2>1. input' = Append(input, New(1, "source")) /\ New(1, "source") \in Line /\ New(1, "source").kind = "source"
    BY <1>0, <1>5, <1>w, ResetEffect DEF Kinds
  <2> QED
    BY <1>0, <2>1, LineLonger
<1>6. CASE CalmRead \/ ReadChunk \/ PressTab \/ AwaitOver
  BY <1>6 DEF CalmRead, ReadCommandOutput, ReadChunk, PressTab, AwaitOver, bashVars
<1> QED
  BY <1>1, <1>2, <1>3, <1>4, <1>5, <1>6 DEF CalmClient

\* The tokens read and the rest are what there was.
LEMMA ReadOn ==
    ASSUME NEW s \in Seq(Token), NEW t \in Seq(Token), NEW n \in 0 .. Len(t)
    PROVE  (s \o SubSeq(t, 1, n)) \o SubSeq(t, n + 1, Len(t)) = s \o t
<1> DEFINE a == SubSeq(t, 1, n)
           b == SubSeq(t, n + 1, Len(t))
           m == s \o a
           x == m \o b
           y == s \o t
           p == Len(s)
           q == Len(t)
<1>1. /\ a \in Seq(Token) /\ Len(a) = n /\ (\A i \in 1 .. n : a[i] = t[i])
      /\ b \in Seq(Token) /\ Len(b) = q - n /\ (\A i \in 1 .. q - n : b[i] = t[n + i])
      /\ p \in Nat /\ q \in Nat /\ n \in 0 .. q
  BY Left
<1> HIDE DEF a, b
<1>2. m \in Seq(Token) /\ Len(m) = p + n /\ (\A i \in 1 .. p + n : m[i] = IF i <= p THEN s[i] ELSE a[i - p])
  BY <1>1, ConcatProperties
<1>3. y \in Seq(Token) /\ Len(y) = p + q /\ (\A i \in 1 .. p + q : y[i] = IF i <= p THEN s[i] ELSE t[i - p])
  BY <1>1, ConcatProperties
<1> HIDE DEF m, y
<1>4. x \in Seq(Token) /\ Len(x) = (p + n) + (q - n)
      /\ (\A i \in 1 .. (p + n) + (q - n) : x[i] = IF i <= p + n THEN m[i] ELSE b[i - (p + n)])
  <2>0. m \in Seq(Token) /\ b \in Seq(Token)
    BY <1>1, <1>2
  <2>1. /\ x \in Seq(Token) /\ Len(x) = Len(m) + Len(b)
        /\ (\A i \in 1 .. Len(m) + Len(b) : x[i] = IF i <= Len(m) THEN m[i] ELSE b[i - Len(m)])
    BY <2>0, ConcatProperties
  <2> HIDE DEF x, p, q
  <2> QED
    BY <1>1, <1>2, <2>1
<1> HIDE DEF x, p, q
<1>5. (p + n) + (q - n) = p + q
  BY <1>1
<1>6. ASSUME NEW i \in 1 .. p + q PROVE x[i] = y[i]
  <2>1. CASE i <= p
    <3>1. i \in 1 .. p + n /\ i <= p + n
      BY <1>1, <2>1
    <3> QED
      BY <1>2, <1>3, <1>4, <1>5, <2>1, <3>1
  <2>2. CASE i > p /\ i <= p + n
    <3>1. i \in 1 .. p + n /\ i - p \in 1 .. n /\ ~ (i <= p)
      BY <1>1, <2>2
    <3>2. x[i] = m[i] /\ m[i] = a[i - p] /\ a[i - p] = t[i - p] /\ y[i] = t[i - p]
      BY <1>1, <1>2, <1>3, <1>4, <1>5, <2>2, <3>1
    <3> QED
      BY <3>2
  <2>3. CASE i > p + n
    <3>1. i - (p + n) \in 1 .. q - n /\ n + (i - (p + n)) = i - p /\ ~ (i <= p) /\ ~ (i <= p + n)
      BY <1>1, <2>3
    <3>2. x[i] = b[i - (p + n)] /\ y[i] = t[i - p]
      BY <1>3, <1>4, <1>5, <3>1
    <3>3. b[i - (p + n)] = t[i - p]
      BY <1>1, <3>1
    <3> QED
      BY <3>2, <3>3
  <2>4. i <= p \/ (i > p /\ i <= p + n) \/ i > p + n
    BY <1>1
  <2> QED
    BY <2>1, <2>2, <2>3, <2>4
<1>7. x = y
  BY <1>3, <1>4, <1>5, <1>6, SeqEqual
<1> QED
  BY <1>7 DEF x, y, m, a, b

\* The questions: each is asked for, read, or left to bash.
LEMMA AskedNext ==
    ASSUME TypeInv, CalmClient \/ CalmBash, waiting' # NoLine
    PROVE  \/ Execute
           \/ /\ waiting' = waiting /\ waiting # NoLine /\ input' = input /\ current' = current
              /\ printed' = printed /\ dir' = dir
              /\ \E n \in 0 .. Len(out) : buf' = buf \o SubSeq(out, 1, n) /\ out' = SubSeq(out, n + 1, Len(out))
           \/ CalmBash /\ waiting' = waiting /\ buf' = buf
<1>1. CASE Execute \/ CalmBash
  BY <1>1 DEF CalmBash, clientVars
<1>2. CASE ReadChunk
  <2>1. PICK n \in 1 .. Len(out) :
           /\ out' = SubSeq(out, n + 1, Len(out))
           /\ IF Ended(buf \o SubSeq(out, 1, n), waiting.id) THEN Return(buf \o SubSeq(out, 1, n), TRUE)
              ELSE buf' = buf \o SubSeq(out, 1, n) /\ UNCHANGED <<plan, waiting, cwd, candidates, engine>>
    BY <1>2 DEF ReadChunk
  <2>2. waiting' = waiting /\ buf' = buf \o SubSeq(out, 1, n)
    BY <2>1 DEF Return
  <2>3. n \in 0 .. Len(out)
    BY <2>1 DEF TypeInv, Types
  <2> QED
    BY <1>2, <2>1, <2>2, <2>3 DEF ReadChunk, BashKeeps
<1>3. CASE StartCommand \/ PressTab \/ ResetEngine \/ CalmRead \/ WriteHelper \/ AwaitOver \/ PollInit
  <2>1. waiting = NoLine
    BY <1>3, Waits DEF StartCommand, PressTab, ResetEngine, Free, CalmRead, ReadCommandOutput, WriteHelper,
       AwaitOver, PollInit, Polls
  <2> QED
    BY <1>3, <2>1 DEF StartCommand, PressTab, ResetEngine, CalmRead, ReadCommandOutput, WriteHelper, AwaitOver, PollInit
<1> QED
  BY <1>1, <1>2, <1>3 DEF CalmClient

\* A question is asked of a bash at rest.
LEMMA AskedAtRest ==
    ASSUME TypeInv, TypeInv', Plain, Piped, Execute, waiting'.kind \in {"cwd", "git", "env", "query"}
    PROVE  /\ Quiet /\ plan # <<>> /\ Head(plan) = waiting'.kind /\ waiting' # NoLine /\ waiting' \in Line
           /\ input' = <<waiting'>> /\ current' = NoLine /\ out' = <<>> /\ buf' = <<>>
<1>0. Types /\ input \in Seq(Line) /\ alive /\ sent \in Nat /\ waiting' \in Line
  BY DEF TypeInv, Types, Plain
<1>1. /\ plan # <<>> /\ waiting = NoLine /\ Head(plan) \in {"cwd", "git", "env", "query", "verify", "source"}
      /\ input' = Append(input, New(1, Head(plan))) /\ waiting' = New(1, Head(plan)) /\ buf' = <<>>
  BY <1>0, ExecuteEffect
<1>2. waiting'.kind = Head(plan)
  BY <1>1 DEF New
<1>3. Quiet
  BY <1>1, <1>2, Waits DEF Piped
<1>4. input' = <<waiting'>>
  BY <1>0, <1>1, <1>3 DEF Quiet
<1>5. current' = NoLine /\ out' = <<>>
  BY <1>3 DEF Execute, BashKeeps, Quiet
<1>6. waiting'.kind # NoLine.kind
  BY DEF NoLine
<1> QED
  BY <1>0, <1>1, <1>2, <1>3, <1>4, <1>5, <1>6

\* Calm steps let nothing between a query and its answer,
LEMMA AnsweringStep ==
    ASSUME TypeInv, TypeInv', Plain, Piped, Answering, CalmClient \/ CalmBash
    PROVE  Answering'
<1> SUFFICES ASSUME waiting'.kind = "query" PROVE Answering'
  BY DEF Answering
<1>0. /\ Types /\ input \in Seq(Line) /\ out \in Seq(Token) /\ buf \in Seq(Token) /\ current \in Line /\ dir \in Nat
      /\ waiting' # NoLine
  BY DEF TypeInv, Types, NoLine
<1>1. CASE Execute
  <2>1. input' = <<waiting'>> /\ current' = NoLine /\ out' = <<>> /\ buf' = <<>>
    BY <1>1, AskedAtRest
  <2>2. Ids(<<waiting'>>) = {waiting'.id} /\ Of(<<>>) = {}
    BY DEF Ids, Of
  <2> QED
    BY <2>1, <2>2 DEF Answering
<1>2. ASSUME /\ waiting' = waiting /\ input' = input /\ current' = current
             /\ \E n \in 0 .. Len(out) : buf' = buf \o SubSeq(out, 1, n) /\ out' = SubSeq(out, n + 1, Len(out))
      PROVE  Answering'
  <2>1. PICK n \in 0 .. Len(out) : buf' = buf \o SubSeq(out, 1, n) /\ out' = SubSeq(out, n + 1, Len(out))
    BY <1>2
  <2>2. Of(SubSeq(out, 1, n)) \subseteq Of(out) /\ Of(out') \subseteq Of(out) /\ SubSeq(out, 1, n) \in Seq(Token)
    BY <1>0, <2>1, TokensLeft
  <2>3. Of(buf') = Of(buf) \cup Of(SubSeq(out, 1, n))
    BY <1>0, <2>1, <2>2, TokensBehind
  <2> QED
    BY <1>2, <2>2, <2>3 DEF Answering
<1>3. ASSUME CalmBash, waiting' = waiting, buf' = buf PROVE Answering'
  <2>1. /\ Of(buf) \subseteq {waiting.id} /\ Of(out) \subseteq {waiting.id} /\ Ids(input) \subseteq {waiting.id}
        /\ current = NoLine \/ current.id = waiting.id
    BY <1>3 DEF Answering
  <2>2. CASE StartLine
    <3>1. /\ current' = input[1] /\ 1 \in DOMAIN input /\ out' = out
          /\ \A i \in DOMAIN input' : i + 1 \in DOMAIN input /\ input'[i] = input[i + 1]
      BY <1>0, <2>2, PlainRun DEF Run
    <3>2. Ids(input') \subseteq Ids(input) /\ current'.id \in Ids(input)
      BY <3>1 DEF Ids
    <3> QED
      BY <1>3, <2>1, <3>1, <3>2 DEF Answering
  <2>3. CASE PrintText
    <3> DEFINE t == NextSaid
    <3>0. NextText \in Nat
      BY NextIsNext
    <3>1. t \in Token /\ t.of = waiting.id /\ out' = Append(out, t) /\ input' = input /\ current' = current
      BY <1>0, <2>1, <2>3, <3>0 DEF PrintText, NextSaid, Text, Token, Line
    <3> HIDE DEF t
    <3>2. Of(out') = Of(out) \cup {t.of}
      BY <1>0, <3>1, TokenBehind
    <3> QED
      BY <1>3, <2>1, <3>1, <3>2 DEF Answering
  <2>4. CASE EndLine
    <3> DEFINE t == End(current, printed)
    <3>1. /\ t \in Token /\ t.of = waiting.id /\ (out' = out \/ out' = Append(out, t))
          /\ input' = input /\ current' = NoLine
      BY <1>0, <2>1, <2>4 DEF EndLine, End, Token, Types, Line
    <3> HIDE DEF t
    <3>2. Of(Append(out, t)) = Of(out) \cup {t.of}
      BY <1>0, <3>1, TokenBehind
    <3> QED
      BY <1>3, <2>1, <3>1, <3>2 DEF Answering
  <2> QED
    BY <1>3, <2>2, <2>3, <2>4 DEF CalmBash
<1> QED
  BY <1>0, <1>1, <1>2, <1>3, AskedNext

\* Two tokens, one after the other.
LEMMA OneAndOne ==
    ASSUME NEW a \in Token, NEW b \in Token
    PROVE  Append(<<a>>, b) = <<a, b>>
<1> DEFINE x == Append(<<a>>, b)
           y == <<a, b>>
<1>1. x \in Seq(Token) /\ y \in Seq(Token) /\ Len(x) = 2 /\ Len(y) = 2
  OBVIOUS
<1>2. x[1] = a /\ x[2] = b /\ y[1] = a /\ y[2] = b
  OBVIOUS
<1> HIDE DEF x, y
<1>3. \A i \in 1 .. 2 : i = 1 \/ i = 2
  OBVIOUS
<1>4. x = y
  BY <1>1, <1>2, <1>3, SeqEqual
<1> QED
  BY <1>4 DEF x, y

\* take the question for the directory from stage to stage,
LEMMA TellingStep ==
    ASSUME TypeInv, TypeInv', Plain, Piped, Telling, CalmClient \/ CalmBash
    PROVE  Telling'
<1> SUFFICES ASSUME waiting'.kind = "cwd" PROVE Telling'
  BY DEF Telling
<1>0. /\ Types /\ input \in Seq(Line) /\ out \in Seq(Token) /\ buf \in Seq(Token) /\ current \in Line /\ dir \in Nat
      /\ waiting' # NoLine /\ buf' \in Seq(Token) /\ <<>> \in Seq(Token)
  BY DEF TypeInv, Types, NoLine
<1>1. CASE Execute
  <2>1. input' = <<waiting'>> /\ current' = NoLine /\ out' = <<>> /\ buf' = <<>>
    BY <1>1, AskedAtRest
  <2>2. <<>> \o <<>> = <<>>
    OBVIOUS
  <2> QED
    BY <2>1, <2>2 DEF Telling
<1>2. ASSUME /\ waiting' = waiting /\ input' = input /\ current' = current /\ printed' = printed /\ dir' = dir
             /\ \E n \in 0 .. Len(out) : buf' = buf \o SubSeq(out, 1, n) /\ out' = SubSeq(out, n + 1, Len(out))
      PROVE  Telling'
  <2>1. buf' \o out' = buf \o out
    BY <1>0, <1>2, ReadOn
  <2> QED
    BY <1>2, <2>1 DEF Telling, Text, End
<1>3. ASSUME CalmBash, waiting' = waiting, buf' = buf PROVE Telling'
  <2>t. /\ Text(waiting, dir) \in Token /\ \A val \in {0, 1} : End(waiting, val) \in Token
    BY <1>0, <1>3 DEF Text, End, Token, Types, Line
  <2>1. CASE StartLine
    <3>1. /\ input' = Tail(input) /\ current' = input[1] /\ input # <<>> /\ current = NoLine
          /\ out' = out /\ printed' = 0 /\ dir' = IF input[1].kind = "cd" THEN dir + 1 ELSE dir
      BY <1>0, <2>1, PlainRun DEF Run
    <3>2. input = <<waiting>> /\ buf \o out = <<>>
      BY <1>3, <3>1 DEF Telling
    <3>3. input' = <<>> /\ current' = waiting /\ buf' \o out' = <<>>
      BY <1>3, <3>1, <3>2, Tails
    <3> QED
      BY <1>3, <3>1, <3>3 DEF Telling
  <2>2. CASE PrintText
    <3>0. current # NoLine /\ waiting.kind = "cwd" /\ current = waiting
      BY <1>3, <2>2 DEF PrintText, Telling
    <3>1. /\ printed = 0 /\ printed' = 1 /\ out' = Append(out, Text(current, dir))
          /\ input' = input /\ current' = current /\ dir' = dir
      BY <2>2, <3>0, PtyAssumption DEF PrintText, PrintsOn, NextText
    <3>2. input = <<>> /\ current = waiting /\ buf \o out = <<>>
      BY <1>3, <3>0, <3>1 DEF Telling
    <3> DEFINE t == Text(waiting, dir)
    <3>3. t \in Token /\ out' = Append(out, t)
      BY <2>t, <3>1, <3>2
    <3> HIDE DEF t
    <3>4. buf \o Append(out, t) = Append(buf \o out, t)
      BY <1>0, <3>3, FurtherBehind
    <3>5. buf' \o out' = <<t>>
      BY <1>3, <3>2, <3>3, <3>4
    <3>6. buf' \o out' = <<Text(waiting, dir)>> /\ Text(waiting, dir) = Text(waiting', dir')
      BY <1>3, <3>1, <3>5 DEF t
    <3> QED
      BY <1>3, <3>1, <3>2, <3>6 DEF Telling
  <2>3. CASE EndLine
    <3>1. current # NoLine /\ (current.kind = "cwd" => printed # 0) /\ current' = NoLine /\ input' = input /\ dir' = dir
      BY <2>3 DEF EndLine
    <3>2. input = <<>> /\ current = waiting /\ printed = 1 /\ buf \o out = <<Text(waiting, dir)>>
      BY <1>3, <3>1 DEF Telling
    <3>3. out' = Append(out, End(waiting, 1))
      BY <1>3, <2>3, <3>2 DEF EndLine, NoSentinel
    <3> DEFINE t == Text(waiting, dir)
               e == End(waiting, 1)
    <3>4. t \in Token /\ e \in Token /\ out' = Append(out, e) /\ buf \o out = <<t>>
      BY <2>t, <3>2, <3>3
    <3> HIDE DEF t, e
    <3>5. buf \o Append(out, e) = Append(buf \o out, e)
      BY <1>0, <3>4, FurtherBehind
    <3>a. Append(<<t>>, e) = <<t, e>>
      BY <3>4, OneAndOne
    <3>6. buf' \o out' = <<t, e>>
      BY <1>3, <3>4, <3>5, <3>a
    <3>7. buf' \o out' = <<Text(waiting, dir), End(waiting, 1)>>
      BY <3>6 DEF t, e
    <3>8. Text(waiting, dir) = Text(waiting', dir') /\ End(waiting, 1) = End(waiting', 1)
      BY <1>3, <3>1
    <3> QED
      BY <3>1, <3>2, <3>7, <3>8 DEF Telling
  <2> QED
    BY <1>3, <2>1, <2>2, <2>3 DEF CalmBash
<1> QED
  BY <1>0, <1>1, <1>2, <1>3, AskedNext

\* The directory is taken from the one text of the answer.
LEMMA AnswerRead ==
    ASSUME NEW line \in Line, NEW val \in Nat
    PROVE  CwdOf(<<Text(line, val), End(line, 1)>>, line.id) = val
<1> DEFINE ts == <<Text(line, val), End(line, 1)>>
<1>1. /\ DOMAIN ts = {1, 2} /\ ts[1].of = line.id /\ ts[1].what = "text" /\ ts[1].val = val
      /\ ts[2].of = line.id /\ ts[2].what = "end"
  BY DEF Text, End
<1> HIDE DEF ts
<1>2. Output(ts, line.id) = {1}
  BY <1>1 DEF Output
<1>3. (CHOOSE i \in Output(ts, line.id) : TRUE) = 1
  BY <1>2
<1>4. CwdOf(ts, line.id) = val
  BY <1>1, <1>2, <1>3 DEF CwdOf
<1> QED
  BY <1>4 DEF ts

\* and so keep the directory of the prompt.
LEMMA BearingsStep ==
    ASSUME TypeInv, TypeInv', LineInv, StreamInv, Plain, Awaited, Piped, Telling, Bearings, CalmClient \/ CalmBash
    PROVE  Bearings'
<1>0. /\ Types /\ input \in Seq(Line) /\ out \in Seq(Token) /\ buf \in Seq(Token) /\ acc \in Seq(Token) /\ dir \in Nat
      /\ plan \in Plans /\ waiting \in Line /\ pending \in Line
  BY DEF TypeInv, Types
<1>i. CalmClient /\ ~ StartCommand => \A i \in DOMAIN input' : input'[i].kind = "cd" => pending # NoLine
  BY CalmInput DEF Bearings
<1>1. CASE StartCommand
  <2>1. PICK kind \in {"user", "cd"} : pending' = New(1, kind)
    BY <1>0, <1>1, StartEffect DEF Plain
  <2>2. pending'.kind # NoLine.kind
    BY <2>1 DEF New, NoLine
  <2> QED
    BY <2>2 DEF Bearings
<1>2. CASE CalmRead
  <2>1. /\ pending # NoLine /\ input' = input /\ dir' = dir /\ cwd' = cwd
        /\ \/ pending' = NoLine /\ plan' # <<>> /\ Head(plan') = "cwd" /\ input = <<>>
           \/ pending' = pending
    BY <1>2, CalmReads
  <2>2. input = <<>> => DOMAIN input' = {}
    BY <2>1
  <2> QED
    BY <2>1, <2>2 DEF Bearings
<1>3. CASE WriteHelper
  <2>1. plan # <<>> /\ Head(plan) = "helper" /\ pending' = pending /\ dir' = dir /\ cwd' = cwd
    BY <1>3 DEF WriteHelper, BashKeeps
  <2>2. cwd = dir \/ pending # NoLine
    BY <2>1 DEF Bearings
  <2> QED
    BY <1>3, <1>i, <2>1, <2>2 DEF Bearings, CalmClient, StartCommand, Free
<1>4. CASE Execute \/ PollInit
  <2>1. pending' = pending /\ plan' = plan /\ dir' = dir /\ cwd' = cwd
    BY <1>4 DEF Execute, PollInit, BashKeeps
  <2>2. ~ StartCommand
    BY <1>4 DEF Execute, PollInit, StartCommand, Free, InProgress, Polls
  <2> QED
    BY <1>4, <1>i, <2>1, <2>2 DEF Bearings, CalmClient
<1>5. CASE ReadChunk
  <2>1. waiting # NoLine /\ pending = NoLine /\ plan # <<>> /\ waiting.kind = Head(plan) /\ input' = input /\ dir' = dir
        /\ pending' = pending /\ current' = current
    BY <1>5, Waits DEF ReadChunk, BashKeeps
  <2>2. PICK n \in 1 .. Len(out) :
           /\ out' = SubSeq(out, n + 1, Len(out))
           /\ IF Ended(buf \o SubSeq(out, 1, n), waiting.id) THEN Return(buf \o SubSeq(out, 1, n), TRUE)
              ELSE UNCHANGED <<plan, waiting, cwd, candidates, engine>>
    BY <1>5 DEF ReadChunk
  <2>3. n \in 0 .. Len(out) /\ SubSeq(out, 1, n) \in Seq(Token)
    BY <1>0
  <2>4. CASE ~ Ended(buf \o SubSeq(out, 1, n), waiting.id)
    BY <2>1, <2>2, <2>4 DEF Bearings
  <2>5. CASE Ended(buf \o SubSeq(out, 1, n), waiting.id) /\ waiting.kind # "cwd"
    <3>1. cwd' = cwd /\ cwd = dir
      BY <2>1, <2>2, <2>5 DEF Return, Bearings
    <3> QED
      BY <2>1, <3>1 DEF Bearings
  <2>6. CASE Ended(buf \o SubSeq(out, 1, n), waiting.id) /\ waiting.kind = "cwd"
    <3>1. Ended(SubSeq(out, 1, n), waiting.id)
      BY <1>0, <2>1, <2>3, <2>6, TokensBehind DEF StreamInv
    <3>2. LastLine(waiting.id) /\ waiting.id \in Nat \ loose
      BY <1>0, <2>1 DEF Piped, Awaited, Line
    <3>3. input = <<>> /\ current = NoLine /\ n = Len(out)
      BY <2>3, <3>1, <3>2, LastRead
    <3>4. SubSeq(out, 1, n) = out
      BY <1>0, <3>3
    <3>5. buf \o out = <<Text(waiting, dir), End(waiting, 1)>>
      BY <2>1, <2>6, <3>3 DEF Telling
    <3>6. cwd' = dir
      BY <1>0, <2>2, <2>6, <3>4, <3>5, AnswerRead DEF Return
    <3> QED
      BY <2>1, <3>6 DEF Bearings
  <2> QED
    BY <2>4, <2>5, <2>6
<1>6. CASE PressTab
  BY <1>6 DEF PressTab, bashVars, Free, Bearings
<1>7. CASE AwaitOver
  BY <1>7 DEF AwaitOver, BashKeeps, Bearings
<1>8. CASE ResetEngine
  <2>1. plan = <<>> /\ pending' = pending /\ plan' = plan /\ dir' = dir /\ cwd' = cwd
    BY <1>8 DEF ResetEngine, Free, BashKeeps
  <2>2. input' = Append(input, New(1, "source")) /\ New(1, "source") \in Line /\ New(1, "source").kind = "source"
    BY <1>0, <1>8, ResetEffect, LinesOne DEF Kinds, Plain, Types
  <2>3. \A i \in DOMAIN input' : input'[i].kind = "cd" => pending # NoLine
    BY <1>0, <2>2, LineLonger DEF Bearings
  <2> QED
    BY <2>1, <2>3 DEF Bearings
<1>9. CASE CalmBash
  <2>1. pending' = pending /\ plan' = plan /\ cwd' = cwd
    BY <1>9 DEF CalmBash, clientVars
  <2>2. CASE StartLine
    <3>1. /\ 1 \in DOMAIN input /\ dir' = IF input[1].kind = "cd" THEN dir + 1 ELSE dir
          /\ \A i \in DOMAIN input' : i + 1 \in DOMAIN input /\ input'[i] = input[i + 1]
      BY <1>0, <2>2, PlainRun DEF Run
    <3> QED
      BY <2>1, <3>1 DEF Bearings
  <2>3. CASE PrintText \/ EndLine
    <3>1. input' = input /\ dir' = dir
      BY <2>3 DEF PrintText, EndLine
    <3> QED
      BY <2>1, <3>1 DEF Bearings
  <2> QED
    BY <1>9, <2>2, <2>3 DEF CalmBash
<1> QED
  BY <1>1, <1>2, <1>3, <1>4, <1>5, <1>6, <1>7, <1>8, <1>9 DEF CalmClient

\* They keep the helper ahead of the queries,
LEMMA HelpedStep ==
    ASSUME TypeInv, TypeInv', Plain, Awaited, Piped, Helped, CalmClient \/ CalmBash
    PROVE  Helped'
<1>0. /\ Types /\ input \in Seq(Line) /\ out \in Seq(Token) /\ plan \in Plans /\ alive /\ sent \in Nat
      /\ helper \in BOOLEAN
  BY DEF TypeInv, Types, Plain
<1>1. CASE CalmClient
  <2>1. helper' = helper /\ current' = current
    BY <1>1 DEF CalmClient, StartCommand, CalmRead, ReadCommandOutput, WriteHelper, Execute, ReadChunk, PollInit, PressTab,
           AwaitOver, ResetEngine, bashVars, BashKeeps
  <2>2. /\ \A i \in DOMAIN input : i \in DOMAIN input' /\ input'[i] = input[i]
        /\ \A i \in DOMAIN input' \ DOMAIN input : input'[i].kind = "query" => Execute /\ Head(plan) = "query"
    BY <1>1, CalmInput
  <2>3. Defined => Defined'
    BY <2>1, <2>2 DEF Defined
  <2>4. \A i \in DOMAIN input' : input'[i].kind = "query" => helper
    <3> SUFFICES ASSUME NEW i \in DOMAIN input', input'[i].kind = "query" PROVE helper
      OBVIOUS
    <3>1. CASE i \in DOMAIN input
      BY <2>2, <3>1 DEF Helped
    <3>2. CASE i \notin DOMAIN input
      <4>1. Execute /\ Head(plan) = "query"
        BY <2>2, <3>2
      <4>2. plan = <<"query">> /\ waiting = NoLine /\ pending = NoLine
        BY <1>0, <4>1, PlanMore, Waits DEF Execute
      <4>3. input = <<>>
        BY <4>1, <4>2, Heads DEF Piped, Quiet
      <4> QED
        BY <4>2, <4>3 DEF Helped, Defined
    <3> QED
      BY <3>1, <3>2
  <2>5. engine'.state \in {"DefiningHelper", "Ready"} \/ plan' \in {<<"query">>, <<"verify", "query">>} => Defined'
    <3>1. CASE StartCommand \/ Execute
      BY <2>3, <3>1 DEF StartCommand, Execute, Helped
    <3>2. CASE CalmRead
      <4>1. engine' = engine /\ (plan' = plan \/ (plan' # <<>> /\ Head(plan') = "cwd"))
        BY <1>0, <3>2, Heads, ReadEffect DEF CalmRead
      <4> QED
        BY <2>3, <4>1, Heads DEF Helped
    <3>3. CASE WriteHelper
      <4>1. input' = Append(input, New(1, "helper")) /\ New(1, "helper") \in Line /\ New(1, "helper").kind = "helper"
        BY <1>0, <3>3, WriteHelperEffect, Newed DEF Kinds
      <4> QED
        BY <1>0, <4>1, LineLonger DEF Defined
    <3>4. CASE ReadChunk
      <4>1. waiting # NoLine /\ plan # <<>> /\ Head(plan) = waiting.kind /\ Head(plan) \notin {"helper", "await"}
        BY <3>4, Waits DEF ReadChunk
      <4>2. \/ engine' = engine /\ plan' = plan
            \/ plan' = Tail(plan) /\ engine' = IF waiting.kind = "verify" THEN Engine("Ready", NoLine) ELSE engine
        BY <3>4 DEF ReadChunk, Return
      <4>3. CASE Head(plan) = "verify"
        BY <1>0, <2>3, <4>1, <4>3, PlanMore DEF Helped
      <4>4. CASE Head(plan) # "verify"
        <5>1. engine' = engine
          BY <4>1, <4>2, <4>4
        <5>2. Tail(plan) \notin {<<"query">>, <<"verify", "query">>}
          <6>1. Head(plan) \in {"cwd", "git", "env", "query", "source"}
            BY <1>0, <4>1, <4>4, PlanFacts
          <6>2. Tail(plan) = <<>> \/ Head(Tail(plan)) \in {"git", "env", "helper"}
            BY <1>0, <4>1, <6>1, PlanMore
          <6> QED
            BY <6>2, Heads
        <5> QED
          BY <2>3, <4>2, <5>1, <5>2 DEF Helped
      <4> QED
        BY <4>3, <4>4
    <3>5. CASE PollInit
      <4>1. InProgress /\ plan' = plan
        BY <3>5 DEF PollInit
      <4>2. CASE engine' = engine \/ engine.state = "DefiningHelper"
        BY <2>3, <4>1, <4>2 DEF Helped
      <4>3. CASE ~ (engine' = engine \/ engine.state = "DefiningHelper")
        <5>1. input' = Append(Append(input, New(1, "helper")), New(2, "verify"))
          BY <1>0, <3>5, <4>3, PollEffect
        <5>2. /\ New(1, "helper") \in Line /\ New(1, "helper").kind = "helper" /\ New(2, "verify") \in Line
          BY <1>0, Newed DEF Kinds
        <5>3. Append(input, New(1, "helper")) \in Seq(Line)
          BY <1>0, <5>2
        <5>4. PICK i \in DOMAIN Append(input, New(1, "helper")) : Append(input, New(1, "helper"))[i] = New(1, "helper")
          BY <1>0, <5>2, LineLonger
        <5>5. i \in DOMAIN input' /\ input'[i] = New(1, "helper")
          BY <5>1, <5>2, <5>3, <5>4, LineLonger
        <5> QED
          BY <5>2, <5>5 DEF Defined
      <4> QED
        BY <4>2, <4>3
    <3>6. CASE PressTab
      <4>1. engine' = engine /\ input' = input /\ helper' = helper
        BY <3>6 DEF PressTab, bashVars
      <4>2. engine.state = "Ready" \/ (plan' # <<>> /\ Head(plan') \in {"source", "await"})
        BY <3>6, Heads DEF PressTab
      <4>3. CASE engine.state = "Ready"
        BY <2>3, <4>3 DEF Helped
      <4>4. CASE engine.state # "Ready"
        BY <2>3, <4>1, <4>2, <4>4, Heads DEF Helped
      <4> QED
        BY <4>3, <4>4
    <3>7. CASE AwaitOver
      <4>1. engine' = engine /\ plan # <<>> /\ Head(plan) = "await" /\ Tail(plan) = <<"query">>
        BY <1>0, <3>7, PlanFacts DEF AwaitOver
      <4>2. engine.state = "Ready" \/ plan' = InitSteps \o <<"query">>
        BY <3>7, <4>1 DEF AwaitOver
      <4>3. CASE engine.state = "Ready"
        BY <2>3, <4>3 DEF Helped
      <4>4. CASE engine.state # "Ready"
        BY <2>3, <4>1, <4>2, <4>4, Heads DEF Helped
      <4> QED
        BY <4>3, <4>4
    <3>8. CASE ResetEngine
      <4>1. engine'.state = "Sourcing" /\ plan' = plan
        BY <1>0, <3>8, ResetEffect, EngineFields DEF ResetEngine
      <4> QED
        BY <2>3, <4>1 DEF Helped
    <3> QED
      BY <1>1, <3>1, <3>2, <3>3, <3>4, <3>5, <3>6, <3>7, <3>8 DEF CalmClient
  <2> QED
    BY <2>1, <2>4, <2>5 DEF Helped
<1>2. CASE CalmBash
  <2>1. engine' = engine /\ plan' = plan
    BY <1>2 DEF CalmBash, clientVars
  <2>2. CASE StartLine
    <3>1. /\ Run(input[1], Tail(input)) /\ input \in Seq(Line) /\ input # <<>> /\ input' = Tail(input) /\ 1 \in DOMAIN input
          /\ current' = input[1] /\ \A i \in DOMAIN input' : i + 1 \in DOMAIN input /\ input'[i] = input[i + 1]
      BY <1>0, <2>2, PlainRun
    <3>2. helper' = (helper \/ input[1].kind = "helper")
      BY <3>1 DEF Run
    <3>3. \A i \in DOMAIN input : i = 1 \/ (i - 1 \in DOMAIN input' /\ input'[i - 1] = input[i])
      BY <3>1, HeadTailProperties
    <3>4. Defined => Defined'
      BY <3>2, <3>3 DEF Defined
    <3> QED
      BY <2>1, <3>1, <3>2, <3>4 DEF Helped
  <2>3. CASE PrintText \/ EndLine
    <3>1. input' = input /\ helper' = helper /\ current' \in {current, NoLine}
      BY <2>3 DEF PrintText, EndLine
    <3> QED
      BY <2>1, <3>1 DEF Helped, Defined, NoLine
  <2> QED
    BY <1>2, <2>2, <2>3 DEF CalmBash
<1> QED
  BY <1>1, <1>2

\* and offer what one line, waited for to its end, has printed.
LEMMA OfferedStep ==
    ASSUME TypeInv, TypeInv', LineInv, StreamInv, Plain, Awaited, Piped, Answering, Offered, CalmClient \/ CalmBash
    PROVE  Offered'
<1>0. /\ Types /\ out \in Seq(Token) /\ buf \in Seq(Token) /\ sent \in Nat /\ loose \subseteq 0 .. sent /\ 0 \in loose
      /\ sent' \in Nat /\ waiting.id \in 0 .. sent
  BY DEF TypeInv, Types, Numbers, Line
<1>1. sent' >= sent
  <2>1. sent' \in {sent, sent + 1, sent + 2}
    <3>1. CASE StartCommand \/ WriteHelper \/ Execute \/ ResetEngine \/ PollInit
      BY <1>0, <3>1, StartEffect, WriteHelperEffect, ExecuteEffect, ResetEffect, PollEffect
    <3>2. CASE CalmRead \/ ReadChunk \/ PressTab \/ AwaitOver \/ CalmBash
      BY <3>2 DEF CalmRead, ReadCommandOutput, ReadChunk, PressTab, AwaitOver, CalmBash, bashVars, StartLine, Run,
       PrintText, EndLine
    <3> QED
      BY <3>1, <3>2 DEF CalmClient
  <2> QED
    BY <1>0, <2>1
<1>m. \A c \in 0 .. sent : c \in 0 .. sent'
  BY <1>0, <1>1
<1>2. loose' \subseteq loose \cup {engine.line}
  BY DEF CalmClient, CalmBash, StartCommand, CalmRead, ReadCommandOutput, WriteHelper, Execute, ReadChunk,
       PollInit, PressTab, Overrun,
         AwaitOver, ResetEngine, bashVars, StartLine, Run, PrintText, EndLine
<1>3. engine'.line \in {engine.line, 0} \cup {sent + 1, sent + 2}
  <2>1. CASE PollInit
    <3>1. New(2, "verify").id = sent + 2
      BY DEF New
    <3> QED
      BY <1>0, <2>1, <3>1, PollEffect, EngineFields DEF NoLine
  <2>2. CASE ResetEngine
    <3>1. New(1, "source").id = sent + 1
      BY DEF New
    <3> QED
      BY <1>0, <2>2, <3>1, ResetEffect, EngineFields DEF NoLine
  <2>3. CASE ReadChunk
    BY <2>3, EngineFields DEF ReadChunk, Return, NoLine
  <2>4. CASE ~ (PollInit \/ ResetEngine \/ ReadChunk)
    BY <2>4 DEF CalmClient, CalmBash, StartCommand, CalmRead, ReadCommandOutput, WriteHelper, Execute, PressTab,
       AwaitOver, clientVars
  <2> QED
    BY <2>1, <2>2, <2>3, <2>4
<1>4. CASE candidates' = candidates \/ candidates' = {}
  <2>1. PICK c \in 0 .. sent : candidates \subseteq {c}
    BY DEF Offered
  <2>2. c \in 0 .. sent' /\ candidates' \subseteq {c}
    BY <1>m, <1>4, <2>1
  <2>3. candidates' \cap (loose' \cup {engine'.line}) = {}
    <3> SUFFICES ASSUME c \in candidates', c \in loose' \cup {engine'.line} PROVE FALSE
      BY <2>2
    <3>1. c \in candidates /\ c # 0 /\ c \notin loose /\ c # engine.line
      BY <1>0, <1>4 DEF Offered
    <3> QED
      BY <1>0, <1>2, <1>3, <2>1, <3>1
  <2> QED
    BY <2>2, <2>3 DEF Offered
<1>5. CASE ~ (candidates' = candidates \/ candidates' = {})
  <2>1. ReadChunk
    BY <1>5 DEF CalmClient, CalmBash, StartCommand, CalmRead, ReadCommandOutput, WriteHelper, Execute, PollInit,
       PressTab, AwaitOver,
           ResetEngine, clientVars
  <2>2. PICK n \in 1 .. Len(out) :
           IF Ended(buf \o SubSeq(out, 1, n), waiting.id) THEN Return(buf \o SubSeq(out, 1, n), TRUE)
           ELSE UNCHANGED <<plan, waiting, cwd, candidates, engine>>
    BY <2>1 DEF ReadChunk
  <2> DEFINE ts == buf \o SubSeq(out, 1, n)
  <2>3. Return(ts, TRUE)
    BY <1>5, <2>2
  <2>4. n \in 0 .. Len(out) /\ SubSeq(out, 1, n) \in Seq(Token)
    BY <1>0
  <2>5. Of(ts) = Of(buf) \cup Of(SubSeq(out, 1, n)) /\ Of(SubSeq(out, 1, n)) \subseteq Of(out)
    BY <1>0, <2>4, TokensLeft, TokensBehind
  <2> HIDE DEF ts
  <2>6. waiting.kind = "query" /\ candidates' = {ts[i].of : i \in Output(ts, waiting.id)} /\ engine' = engine
    BY <1>5, <2>3 DEF Return
  <2>7. candidates' \subseteq Of(ts)
    BY <2>6 DEF Output, Of
  <2>8. candidates' \subseteq {waiting.id}
    BY <2>5, <2>6, <2>7 DEF Answering
  <2>9. waiting.id \notin loose /\ waiting.id # engine.line /\ loose' = loose
    BY <2>1 DEF ReadChunk, Awaited
  <2>a. waiting.id \in 0 .. sent' /\ candidates' \cap (loose' \cup {engine'.line}) = {}
    BY <1>0, <1>m, <2>6, <2>8, <2>9
  <2> QED
    BY <2>8, <2>a DEF Offered
<1> QED
  BY <1>4, <1>5

\* So every step keeps all this, or upsets the order.
LEMMA CalmStep ==
    ASSUME TypeInv, TypeInv', LineInv, StreamInv, PipeInv, CalmInv, Moves
    PROVE  CalmInv'
<1> SUFFICES ASSUME ~ upset' PROVE Answering' /\ Telling' /\ Bearings' /\ Helped' /\ Offered'
  BY DEF CalmInv
<1>1. ~ upset /\ Plain /\ Awaited /\ Piped /\ (CalmClient \/ CalmBash)
  BY CalmNext
<1>2. Answering /\ Telling /\ Bearings /\ Helped /\ Offered
  BY <1>1 DEF CalmInv
<1> QED
  BY <1>1, <1>2, AnsweringStep, TellingStep, BearingsStep, HelpedStep, OfferedStep

----------------------------------------------------------------------------
(* The invariant and what follows from it.                                 *)

\* The inductive invariant.
IInv == TypeInv /\ LineInv /\ StreamInv /\ ReportInv /\ PipeInv /\ CalmInv

\* It holds at the start,
LEMMA InitInvariant == Init => IInv
<1> SUFFICES ASSUME Init PROVE IInv
  OBVIOUS
<1> DEFINE first == [id |-> 1, kind |-> "source"]
<1>1. TypeInv
  BY InitTypes
<1>2. /\ input = <<first>> /\ current = NoLine /\ pending = NoLine /\ waiting = NoLine /\ out = <<>> /\ acc = <<>>
      /\ buf = <<>> /\ plan = <<>> /\ loose = {0} /\ engine.state = "Sourcing" /\ engine.line = 1 /\ sent = 1
      /\ NoLine.id = 0 /\ NoLine.kind = "none" /\ report.tokens = <<>> /\ cwd = dir /\ cut = FALSE
      /\ candidates = {} /\ alive /\ jobs = {}
  BY DEF Init, PtyInit, NoLine, Typed
<1>3. /\ DOMAIN input = {1} /\ input[1].id = 1 /\ input[1].kind = "source" /\ Len(input) = 1 /\ input # <<>>
      /\ input[1] # Typed /\ Ids(input) = {1}
  BY <1>2 DEF Typed, Ids
<1>4. DOMAIN <<>> = {} /\ Of(<<>>) = {} /\ <<>> \o <<>> = <<>>
  BY DEF Of
<1>5. LineInv
  BY <1>2, <1>3 DEF LineInv, Apart
<1>6. StreamInv
  BY <1>2, <1>3, <1>4 DEF StreamInv, SpentIn, Ended, Own
<1>7. ReportInv
  BY <1>2, <1>4 DEF ReportInv, ForeignOutputIsLoose, ReportIsComplete
<1>8. PipeInv
  <2>1. Plain /\ Awaited
    BY <1>2, <1>3 DEF Plain, Awaited
  <2>2. LastLine(engine.line)
    BY <1>2, <1>3 DEF LastLine, NoSentinel
  <2>3. plan # <<"verify", "query">> /\ InProgress /\ engine.line \notin loose
    BY <1>2 DEF InProgress
  <2>4. Piped
    BY <1>2, <2>2, <2>3 DEF Piped
  <2> QED
    BY <2>1, <2>4 DEF PipeInv
<1>9. CalmInv
  <2>1. Answering /\ Telling
    BY <1>2 DEF Answering, Telling
  <2>2. Bearings
    BY <1>2, <1>3 DEF Bearings
  <2>3. Helped
    BY <1>2, <1>3 DEF Helped
  <2>4. Offered
    BY <1>2 DEF Offered
  <2> QED
    BY <2>1, <2>2, <2>3, <2>4 DEF CalmInv
<1> QED
  BY <1>1, <1>5, <1>6, <1>7, <1>8, <1>9 DEF IInv

\* Steps of the clock change nothing here.
LEMMA Stutter == IInv /\ UNCHANGED Rest => IInv'
<1> SUFFICES ASSUME IInv, UNCHANGED Rest PROVE IInv'
  OBVIOUS
<1>1. /\ alive' = alive /\ input' = input /\ current' = current /\ printed' = printed /\ dir' = dir /\ helper' = helper
      /\ jobs' = jobs /\ out' = out /\ sent' = sent /\ events' = events /\ loose' = loose /\ upset' = upset
      /\ pending' = pending /\ acc' = acc /\ cut' = cut /\ plan' = plan /\ waiting' = waiting /\ buf' = buf
      /\ engine' = engine /\ cwd' = cwd /\ candidates' = candidates /\ report' = report /\ ops' = ops
  BY DEF Rest, bashVars
<1>2. TypeInv'
  <2>1. Types'
    BY <1>1 DEF IInv, TypeInv, Types
  <2>2. Numbers'
    BY <1>1 DEF IInv, TypeInv, Numbers, InProgress
  <2>3. Control'
    BY <1>1 DEF IInv, TypeInv, Control, InProgress
  <2> QED
    BY <2>1, <2>2, <2>3 DEF TypeInv
<1>3. LineInv' /\ StreamInv'
  BY <1>1 DEF IInv, LineInv, StreamInv, Own
<1>4. ReportInv'
  BY <1>1 DEF IInv, ReportInv, ForeignOutputIsLoose, ReportIsComplete, Heard, InOrder, Told, Said, Whole, Ended, Ids
<1>5. PipeInv'
  BY <1>1 DEF IInv, PipeInv, Plain, Awaited, Piped, InProgress, LastLine, Quiet, Defining
<1>6. CalmInv'
  BY <1>1 DEF IInv, CalmInv, Answering, Telling, Bearings, Helped, Defined, Offered, Text, End
<1> QED
  BY <1>2, <1>3, <1>4, <1>5, <1>6 DEF IInv

\* A key that the program reads does nothing else.
LEMMA NextMoves ==
    ASSUME TypeInv, [Next]_vars
    PROVE  Moves \/ UNCHANGED Rest
<1>1. CASE UNCHANGED vars
  BY <1>1 DEF vars, clientVars, Rest
<1>2. CASE TimePasses
  BY <1>2 DEF TimePasses, Rest
<1>3. CASE ForwardKey
  <2>1. CASE input' = input
    <3>1. input \in Seq(Line) /\ Typed \in Line
      BY DEF TypeInv, Types, Typed, Line, Kinds
    <3>2. Len(Append(input, Typed)) = Len(input) + 1 /\ Len(input) \in Nat
      BY <3>1
    <3>3. input # Append(input, Typed)
      BY <3>2
    <3>4. UNCHANGED <<input, events, upset>>
      BY <1>3, <2>1, <3>3 DEF ForwardKey
    <3> QED
      BY <1>3, <3>4 DEF ForwardKey, BashKeeps, Rest, bashVars
  <2>2. CASE input' # input
    BY <1>3, <2>2 DEF Moves
  <2> QED
    BY <2>1, <2>2
<1>4. CASE Next /\ ~ TimePasses /\ ~ ForwardKey
  BY <1>4 DEF Next, ClientStep, Moves
<1> QED
  BY <1>1, <1>2, <1>3, <1>4

\* and no step breaks it.
LEMMA InvariantStep == IInv /\ [Next]_vars => IInv'
<1> SUFFICES ASSUME IInv, [Next]_vars PROVE IInv'
  OBVIOUS
<1>1. CASE Moves
  <2>1. TypeInv /\ LineInv /\ StreamInv /\ ReportInv /\ PipeInv /\ CalmInv
    BY DEF IInv
  <2>2. TypeInv'
    BY <1>1, <2>1, TypeStep
  <2>3. LineInv' /\ StreamInv' /\ ReportInv'
    BY <1>1, <2>1, <2>2, LineStep, StreamStep, ReportStep
  <2>4. PipeInv' /\ CalmInv'
    BY <1>1, <2>1, <2>2, PipeStep, CalmStep
  <2> QED
    BY <2>2, <2>3, <2>4 DEF IInv
<1>2. CASE UNCHANGED Rest
  BY <1>2, Stutter
<1> QED
  BY <1>1, <1>2, NextMoves DEF IInv

\* It holds in every state.
THEOREM CoprocessInvariant == Spec => []IInv
BY InitInvariant, InvariantStep, PTL DEF Spec

\* What a command is reported with comes from itself, or from a line nobody waits
\* for any more: no two readers share a question (event_loop.rs, poll_init).
THEOREM ForeignIsLoose == Spec => []ForeignOutputIsLoose
<1>1. IInv => ForeignOutputIsLoose
  BY DEF IInv, ReportInv
<1> QED
  BY <1>1, CoprocessInvariant, PTL

\* A command is reported with all it printed or, where that was too long, with the
\* last part of it (event_loop.rs, io.rs:118-156).
THEOREM ReportsComplete == Spec => []ReportIsComplete
<1>1. IInv => ReportIsComplete
  BY DEF IInv, ReportInv
<1> QED
  BY <1>1, CoprocessInvariant, PTL

\* The prompt shows bash's directory when nothing has upset the order, a reply about
\* the cursor that bash gets included (query_cwd after each command, io.rs:158-171).
THEOREM PromptShowsCwd == Spec => []CwdIsBashs
<1>1. IInv => CwdIsBashs
  BY DEF IInv, CalmInv, Bearings, CwdIsBashs, Free
<1> QED
  BY <1>1, CoprocessInvariant, PTL

\* A completion finds its helper when nothing has upset the order (complete, poll_init).
THEOREM HelperDefined == Spec => []HelperIsThere
<1>1. IInv => HelperIsThere
  BY DEF IInv, CalmInv, Helped, HelperIsThere
<1> QED
  BY <1>1, CoprocessInvariant, PTL

\* Candidates come from the query's own output when nothing has upset the order
\* (complete, parse of its output).
THEOREM CandidatesOwn == Spec => []CandidatesAreOwn
<1>1. IInv => CandidatesAreOwn
  <2> SUFFICES ASSUME IInv, plan = <<>>, ~ upset PROVE Cardinality(candidates) <= 1 /\ candidates \cap loose = {}
    BY DEF CandidatesAreOwn
  <2>1. Offered
    BY DEF IInv, CalmInv
  <2>2. PICK c \in 0 .. sent : candidates \subseteq {c}
    BY <2>1 DEF Offered
  <2>3. IsFiniteSet({c}) /\ Cardinality({c}) = 1
    BY FS_Singleton
  <2>4. Cardinality(candidates) <= 1
    BY <2>2, <2>3, FS_Subset
  <2> QED
    BY <2>1, <2>4 DEF Offered
<1> QED
  BY <1>1, CoprocessInvariant, PTL
=============================================================================
