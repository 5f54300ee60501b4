------------------------------ MODULE ToolRun -------------------------------
(***************************************************************************)
(* Runs with tools under fairness, from the stream on the daemon over the  *)
(* permission gate to the prompt and the blocks on the client, with the    *)
(* classification of the commands they ask for.                            *)
(***************************************************************************)
EXTENDS ToolView, CommandRisk

CONSTANTS SampleCommands,  \* syntax trees over which the classification is checked
          SampleNames,     \* command names
          SampleWords      \* words after them

\* A program of one command.
List(c) == <<<<c>>>>

\* What a bash call asks for, by the tree of its command.
BashRequest(pattern, program) ==
    [tool |-> "bash", pattern |-> pattern, risk |-> RiskName[ClassifyCommand(program) + 1],
     readonly |-> IsReadonly(program)]

\* A call that is to be judged or asked about moves on by itself: the runtime
\* polls it, and both waits have a timer (10 s, 60 s).  The client's event loop
\* polls its connection.
Undecided(c) == gate[c] \in {"evaluating", "asking", "waiting", "late"}

Deciding == \E c \in Calls : Undecided(c) /\ Gate(c) /\ UNCHANGED viewVars

Fairness == WF_vars(HandleFrame) /\ WF_vars(Deciding)

Spec == ToolSpec /\ Fairness

----------------------------------------------------------------------------
\* A call that is judged or asked about is decided, whether the user answers,
\* the prompt is replaced or the evaluator hangs (10 s and 60 s timers).
EveryQuestionEnds == []<>(\A c \in Calls : ~ Undecided(c))

----------------------------------------------------------------------------
(* The classification of commands.                                         *)

Commands(list) == UNION {{list[i][j] : j \in DOMAIN list[i]} : i \in DOMAIN list}

\* The lists bash runs in the course of a command: those its risk counts, and
\* those it passes over: bodies of functions and of the arithmetic for
\* (classify.rs:158, 195), substitutions in words, targets of redirections.
Unread == {"function", "arithmetic for"}

Counted(c)    == IF c.kind = "simple" THEN c.subs ELSE IF c.kind \in Unread THEN <<>> ELSE c.lists
PassedOver(c) == c.hidden \o IF c.kind \in Unread THEN c.lists ELSE <<>>
ListsIn(c)    == Counted(c) \o PassedOver(c)

Parts(lists) == UNION {Commands(lists[i]) : i \in DOMAIN lists}

\* Names alone decide whether a command only reads (readonly.rs).
RECURSIVE NamesAlone(_)
NamesAlone(c) ==
    /\ c.ios = {} /\ c.hidden = <<>> /\ (c.kind = "simple" => c.subs = <<>>)
    /\ \A p \in Parts(ListsIn(c)) : NamesAlone(p)

\* How much stands between a command and its execution, by the gate in its
\* present mode: nothing, the judging model, the user.
Care == [allow |-> 0, evaluate |-> 1, prompt |-> 2, deny |-> 3]

CareFor(program) == Care[CheckPermission(rules, mode, BashRequest(NoArgs, program))]

\* The decision depends on rules, mode and command alone: looking at it before
\* the first run, in each mode, is enough.
BeforeRuns == turn = 0 /\ rules = NoRules

\* No care is lost by wrapping, as far as the classifiers look: a command gets at
\* least the care of each command in it, in a later branch, a loop, a subshell or
\* a process substitution, and in manual mode, where names decide, also in the
\* body of a function or an arithmetic for.  What the risk passes over is named
\* above; manual mode passes over redirections and substitutions.
RiskCoversParts ==
    BeforeRuns => \A c \in SampleCommands :
        LET covered == IF mode # "manual" THEN Counted(c) ELSE IF NamesAlone(c) THEN ListsIn(c) ELSE <<>>
        IN  \A p \in Parts(covered) : CareFor(List(p)) <= CareFor(List(c))

\* Once the subcommand is there, no further word makes a command less careful,
\* whichever table or escalation decides (compute_command_risk, which asks the
\* tables of harmless commands after the critical patterns).
MoreWordsNeverSafer ==
    BeforeRuns => \A name \in SampleNames \ {"env"}, a, b, w \in SampleWords :
        /\ CareFor(List(Simple(name, <<a>>))) <= CareFor(List(Simple(name, <<a, w>>)))
        /\ CareFor(List(Simple(name, <<a, b>>))) <= CareFor(List(Simple(name, <<a, b, w>>)))
=============================================================================
