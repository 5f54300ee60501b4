---------------------------- MODULE CommandRisk -----------------------------
(***************************************************************************)
(* What a bash command may do, read off its syntax tree: its risk          *)
(* (codivd/src/agent/ast/classify.rs) and whether it only reads            *)
(* (readonly.rs), from the tables of risk_tables.rs.                       *)
(*                                                                         *)
(* The parser is external: a command is its tree.  Each table is modelled  *)
(* by a few of its names, which it tells apart as the code does, and a     *)
(* word by what the code asks of it: an option, an assignment, a           *)
(* subcommand, a path that is sensitive or not.                            *)
(***************************************************************************)
EXTENDS Naturals, Sequences, SequencesExt, FiniteSetsExt

Critical == 3
High     == 2
Medium   == 1
Low      == 0

RiskName == <<"low", "medium", "high", "critical">>

MaxRisk(risks) == Max(risks \cup {Low})

----------------------------------------------------------------------------
(* Tables.                                                                 *)

ReadonlyCommands == {"ls", "cat"}
BuildCommands    == {"make"}
CriticalCommands == {"sudo", "eval", "mkfs.ext4"}
HighCommands     == {"rm", "mv", "chmod", "chown", "curl", "wget", "nc", "ssh"}
MediumCommands   == {"touch", "python"}

SafeSubcommands     == {<<"git", "status">>, <<"git", "stash">>, <<"cargo", "test">>}
HighSubcommands     == {<<"git", "push">>, <<"git", "reset">>, <<"cargo", "install">>}
ReadonlySubcommands == {<<"git", "status">>, <<"git", "stash">>}

NetworkFetch      == {"curl", "wget", "nc"}
ShellInterpreters == {"bash", "python"}

OptionWords        == {"-v", "-rf", "-R", "--force", "--hard", "-d", "-T", "-l", "-L"}
Assignments    == {"A=b"}
SensitivePaths == {"/etc/hosts", "~/notes", ".env"}
SafePseudo     == {"/dev/null"}

\* A script named by a relative path.
Relative(name) == name = "./run.sh"

----------------------------------------------------------------------------
(* Words and redirections.                                                 *)

PathIsSensitive(path) == path \in SensitivePaths \ SafePseudo

ArgsContainSensitivePath(args) == \E i \in DOMAIN args : args[i] \notin OptionWords /\ PathIsSensitive(args[i])

Has(args, words) == \E i \in DOMAIN args : args[i] \in words

\* A redirection also looks for a dotfile anywhere in the path.
IsSensitiveRedirectPath(path) == PathIsSensitive(path) \/ path = "src/.env"

ClassifyIoRedirect(io) ==
    IF io.kind \in {"write", "append", "clobber", "both"} /\ IsSensitiveRedirectPath(io.path)
    THEN Critical ELSE Low

----------------------------------------------------------------------------
(* One command with its words.  The escalations give Critical or Low.      *)

CheckCriticalPatterns(cmd, args) ==
    CASE cmd = "rm"    -> Has(args, {"-rf"}) \/ ArgsContainSensitivePath(args)
      [] cmd = "chmod" -> Has(args, {"-R"}) /\ Has(args, {"777"})
      [] cmd = "chown" -> Has(args, {"-R"})
      [] OTHER         -> FALSE

\* The value of -d is looked up after the first -d.
SendsFile(args) ==
    \/ Has(args, {"-T"})
    \/ \E i \in DOMAIN args :
         /\ args[i] = "-d" /\ \A j \in 1 .. i - 1 : args[j] # "-d"
         /\ i < Len(args) /\ args[i + 1] = "@file"

\* Mutant of CheckHighCommandEscalation: only the last word is looked at.
LastWordEscalates(cmd, args) ==
    /\ args # <<>>
    /\ args[Len(args)] \in CASE cmd = "curl" -> {"-T", "@file"} [] cmd = "nc" -> {"-l"}
                               [] cmd = "ssh" -> {"-L", "-R"}  [] OTHER -> {}

CheckHighCommandEscalation(cmd, args) ==
    CASE cmd = "curl" -> SendsFile(args)
      [] cmd = "nc"   -> Has(args, {"-l"})
      [] cmd = "ssh"  -> Has(args, {"-L", "-R"})
      [] OTHER        -> FALSE

CheckSubcommandEscalation(cmd, sub, args) ==
    \/ cmd = "git" /\ sub = "push" /\ Has(args, {"--force"})
    \/ cmd = "git" /\ sub = "reset" /\ Has(args, {"--hard"})

\* The tables in the order in which they are asked.
CommandRiskOf(cmd, args) ==
    LET sub == IF args = <<>> THEN "" ELSE args[1] IN
    CASE Relative(cmd)                                   -> Medium
      [] cmd \in CriticalCommands                       -> Critical
      [] CheckCriticalPatterns(cmd, args)                -> Critical
      [] cmd \in ReadonlyCommands \cup BuildCommands     -> Low
      [] <<cmd, sub>> \in SafeSubcommands                -> Low
      [] <<cmd, sub>> \in HighSubcommands ->
           IF CheckSubcommandEscalation(cmd, sub, args) THEN Critical ELSE High
      [] cmd \in HighCommands /\ ~ CheckCriticalPatterns(cmd, args) ->
           IF ArgsContainSensitivePath(args) \/ CheckHighCommandEscalation(cmd, args)
           THEN Critical ELSE High
      [] OTHER                                           -> Medium

\* The first word of env that is neither an option nor an assignment.
InnerOfEnv(args) ==
    LET inner == {i \in DOMAIN args : args[i] \notin OptionWords \cup Assignments}
    IN  IF inner = {} THEN 0 ELSE Min(inner)

\* env stands for the command it runs, env itself included.
RECURSIVE ComputeCommandRisk(_, _)
ComputeCommandRisk(cmd, args) ==
    IF cmd # "env" THEN CommandRiskOf(cmd, args)
    ELSE LET i == InnerOfEnv(args) IN
         IF i = 0 THEN Low ELSE ComputeCommandRisk(args[i], SubSeq(args, i + 1, Len(args)))

----------------------------------------------------------------------------
(* Trees.  A simple command has a name ("" if it only assigns or redirects) *)
(* and words, redirections and the lists of its process substitutions; a   *)
(* compound one its lists and redirections; a list is a sequence of        *)
(* pipelines, whatever joins them.  Both may have lists in hidden places:  *)
(* the command substitutions in words, the process substitutions that      *)
(* redirections go to.                                                     *)

Simple(name, args) ==
    [kind |-> "simple", name |-> name, args |-> args, ios |-> {}, subs |-> <<>>, hidden |-> <<>>]
Compound(kind, lists, ios) == [kind |-> kind, lists |-> lists, ios |-> ios, hidden |-> <<>>]

Groups   == {"subshell", "brace"}
Bodies   == Groups \cup {"for", "while", "if", "case"}
\* Their redirections count; of the others nothing does.
Counting == {"arithmetic", "arithmetic for"}
Harmless == {"function", "test"}

Fetches(c)    == c.kind = "simple" /\ c.name \in NetworkFetch
Interprets(c) == c.kind = "simple" /\ c.name \in ShellInterpreters

\* A fetch whose output goes to an interpreter.
CheckPipeToShell(seq) ==
    \E i \in 1 .. Len(seq) - 1 : Fetches(seq[i]) /\ Interprets(seq[i + 1])

RECURSIVE ClassifyAstCommand(_)

ClassifyPipeline(seq) ==
    IF CheckPipeToShell(seq) THEN Critical
    ELSE MaxRisk({ClassifyAstCommand(seq[i]) : i \in DOMAIN seq})

ClassifyList(list) == MaxRisk({ClassifyPipeline(list[i]) : i \in DOMAIN list})

\* A command with the lists that count.
ClassifyWith(cmd, lists) ==
    IF cmd.kind \in Harmless THEN Low
    ELSE MaxRisk((IF cmd.kind = "simple" /\ cmd.name # "" THEN {ComputeCommandRisk(cmd.name, cmd.args)} ELSE {})
                 \cup {ClassifyIoRedirect(io) : io \in cmd.ios}
                 \cup {ClassifyList(lists[i]) : i \in DOMAIN lists})

\* Mutant of ClassifyAstCommand: of a compound command only the first list counts.
FirstListOnly(cmd) ==
    ClassifyWith(cmd, IF cmd.kind = "simple" THEN cmd.subs
                      ELSE IF cmd.kind \in Bodies THEN SubSeq(cmd.lists, 1, 1) ELSE <<>>)

\* Nobody looks into hidden places, the body of a function or the arithmetic for.
ClassifyAstCommand(cmd) ==
    ClassifyWith(cmd, IF cmd.kind = "simple" THEN cmd.subs
                      ELSE IF cmd.kind \in Bodies THEN cmd.lists ELSE <<>>)

----------------------------------------------------------------------------
(* Reading only: by names alone.                                           *)

SimpleIsReadonly(c) ==
    \/ c.name \in ReadonlyCommands \cup {""}
    \/ /\ c.name = "env"
       /\ LET i == InnerOfEnv(c.args) IN i = 0 \/ c.args[i] \in ReadonlyCommands
    \/ c.args # <<>> /\ <<c.name, c.args[1]>> \in ReadonlySubcommands

RECURSIVE AstCommandIsReadonly(_)

PipelineIsReadonly(seq) == \A i \in DOMAIN seq : AstCommandIsReadonly(seq[i])
ListIsReadonly(list)    == \A i \in DOMAIN list : PipelineIsReadonly(list[i])

AstCommandIsReadonly(cmd) ==
    \/ cmd.kind = "simple" /\ SimpleIsReadonly(cmd)
    \/ cmd.kind \in Groups /\ \A i \in DOMAIN cmd.lists : ListIsReadonly(cmd.lists[i])
    \/ cmd.kind = "test"

\* A program of the parser is a list; what it cannot parse is Medium.
ClassifyCommand(program) == IF program = <<"unparsed">> THEN Medium ELSE ClassifyList(program)
IsReadonly(program)      == program # <<"unparsed">> /\ ListIsReadonly(program)
=============================================================================
