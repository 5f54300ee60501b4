------------------------------- MODULE BashPty -------------------------------
(***************************************************************************)
(* The bash behind the pseudo terminal, as far as the client depends on it *)
(* (codiv/src/shell/bash_coprocess.rs, codiv-common/src/shell).  Bash, the *)
(* programs it runs and the terminal driver are external.                  *)
(*                                                                         *)
(* A line of input is a command followed by an echo of its sentinel, all   *)
(* but the definition of the completion helper and what the user types to  *)
(* a program.  Bash runs the lines one after another.                      *)
(***************************************************************************)
EXTENDS Integers, Sequences, FiniteSets, SequencesExt

CONSTANTS MaxOps,    \* bound: commands, completions and resets
          MaxEvents, \* bound: Ctrl-C, keys and replies a program leaves to bash,
                     \*        jobs, deaths of bash
          MaxPrints  \* bound: texts of a command that are told apart, and output
                     \*        unread while it goes on printing

ASSUME PtyAssumption == MaxOps \in Nat /\ MaxEvents \in Nat /\ MaxPrints \in Nat \ {0}

VARIABLES alive,   \* bash runs
          input,   \* lines the terminal holds for bash
          current, \* the line bash runs
          printed, \* how many texts that line has printed
          dir,     \* bash's working directory, as the number of changes
          helper,  \* __codiv_complete is defined
          jobs,    \* lines that left a background job
          out,     \* the reader thread's channel
          sent,    \* lines written so far
          events,  \* events so far
          loose,   \* lines whose output may turn up in the reading for another
          upset    \* one of the events or a timeout has happened

bashVars == <<alive, input, current, printed, dir, helper, jobs, out, sent, events, loose, upset>>

NoLine == [id |-> 0, kind |-> "none"]
Typed  == [id |-> 0, kind |-> "typed"]

Silent      == {"cd", "git", "env", "source", "helper", "verify"}
NoSentinel  == {"helper", "typed"}

Text(line, val) == [of |-> line.id, what |-> "text", val |-> val]
\* The sentinel; its value says how much the line has printed.
End(line, val)  == [of |-> line.id, what |-> "end", val |-> val]

Event == events < MaxEvents /\ events' = events + 1 /\ upset' = TRUE

PtyInit ==
    /\ alive   = TRUE
    /\ current = NoLine
    /\ printed = 0
    /\ dir     = 0
    /\ helper  = FALSE
    /\ jobs    = {}
    /\ out     = <<>>
    /\ events  = 0
    /\ loose   = {Typed.id}
    /\ upset   = FALSE

\* The next line.  What was typed to a program and not read by it is a line of
\* its own, or the beginning of the line that follows, which it spoils.
Run(line, rest) ==
    /\ current' = line
    /\ printed' = 0
    /\ input' = rest
    /\ dir' = IF line.kind = "cd" THEN dir + 1 ELSE dir
    /\ helper' = (helper \/ line.kind = "helper")
    /\ UNCHANGED <<alive, jobs, out, sent, events, loose, upset>>

StartLine ==
    /\ alive /\ current = NoLine /\ input # <<>>
    /\ \/ Run(Head(input), Tail(input))
       \/ /\ Head(input) = Typed /\ Len(input) > 1
          /\ Run([input[2] EXCEPT !.kind = IF @ \in NoSentinel THEN "typed" ELSE "spoiled"], SubSeq(input, 3, Len(input)))

\* The number of the next text: the last stands for all that follow.
NextText == IF printed < MaxPrints THEN printed + 1 ELSE printed

\* The user's command may print for ever, by the bounds as long as somebody
\* follows it; to a question there is one answer.
PrintsOn ==
    /\ current.kind = "user" /\ Len(out) < MaxPrints
    /\ printed < MaxPrints \/ current.id \notin loose

PrintText ==
    /\ current # NoLine /\ current.kind \notin Silent
    /\ printed = 0 \/ PrintsOn
    /\ printed' = NextText
    /\ out' = Append(out, Text(current, IF current.kind = "cwd" THEN dir ELSE NextText))
    /\ UNCHANGED <<alive, input, current, dir, helper, jobs, sent, events, loose, upset>>

EndLine ==
    /\ current # NoLine
    /\ current.kind = "cwd" => printed # 0
    /\ current' = NoLine
    /\ out' = IF current.kind \in NoSentinel THEN out
              ELSE Append(out, End(current, printed))
    /\ UNCHANGED <<alive, input, printed, dir, helper, jobs, sent, events, loose, upset>>

\* The user's command leaves a job in the background, which prints later.
LeaveJob ==
    /\ Event
    /\ current.kind = "user" /\ current.id \notin loose
    /\ jobs' = jobs \cup {current.id}
    /\ loose' = loose \cup {current.id}
    /\ UNCHANGED <<alive, input, current, printed, dir, helper, out, sent>>

JobPrints ==
    /\ \E j \in jobs : jobs' = jobs \ {j} /\ out' = Append(out, [of |-> j, what |-> "text", val |-> 0])
    /\ UNCHANGED <<alive, input, current, printed, dir, helper, sent, events, loose, upset>>

\* The command ends bash itself: "exit 1", "exec".
BashDies ==
    /\ Event
    /\ current.kind = "user"
    /\ alive' = FALSE
    /\ current' = NoLine
    /\ input' = <<>>
    /\ UNCHANGED <<printed, dir, helper, jobs, out, sent, loose>>

BashStep == StartLine \/ PrintText \/ EndLine \/ LeaveJob \/ JobPrints \/ BashDies

----------------------------------------------------------------------------
(* What the client does to it.                                             *)

Lines(kinds) == [i \in DOMAIN kinds |-> [id |-> sent + i, kind |-> kinds[i]]]

\* Nothing can be written to a terminal whose bash is gone.
WriteLines(lines) ==
    /\ input' = IF alive THEN input \o lines ELSE input
    /\ sent' = sent + Len(lines)

\* The driver drops what bash has not read and interrupts what runs, which ends
\* without its sentinel or does not care.
Interrupt ==
    /\ input' = <<>>
    /\ current' \in {NoLine, current}
=============================================================================
