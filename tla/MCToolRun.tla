------------------------------ MODULE MCToolRun -----------------------------
(* Constants of ToolRun for TLC. *)
EXTENDS ToolRun

ReadFile   == [tool |-> "read", pattern |-> NoArgs, risk |-> "low", readonly |-> TRUE]
GitPush    == BashRequest("git push", List(Simple("git", <<"push">>)))
RemoveTree == BashRequest("rm", List(Simple("rm", <<"-rf", "dir">>)))

\* The evaluator judges the first call; the second is critical or a read.
MCRequests == <<{GitPush}, {RemoveTree, ReadFile}>>

MCCalls == 1 .. MaxCalls

MCNames == ReadonlyCommands \cup BuildCommands \cup CriticalCommands \cup HighCommands
           \cup MediumCommands \cup {"git", "cargo", "env", "bash", "./run.sh", "foo"}

MCWords == {"status", "push", "test", "-rf", "-R", "777", "-d", "@file", "-l", "--force",
            "/etc/hosts", "file", "A=b", "rm", "ls"}

Leaves ==
    {Simple(n, <<a>>) : n \in {"ls", "git", "env", "rm", "curl", "bash"}, a \in {"status", "-rf", "ls", "file"}}
    \cup {Simple("git", <<"push", "status">>), Simple("", <<>>), Compound("test", <<>>, {}),
          Compound("arithmetic", <<>>, {})}

Writes == [kind |-> "write", path |-> "src/.env"]

\* Two leaves in each kind of place.
Nested ==
    {Compound(k, <<List(a), List(b)>>, ios) : k \in {"if", "while", "case"}, a, b \in Leaves, ios \in {{}, {Writes}}}
    \cup {Compound("subshell", <<<<<<a, b>>>>>>, {}) : a, b \in Leaves}
    \cup {Compound("brace", <<<<<<a>>, <<b>>>>>>, {}) : a, b \in Leaves}
    \cup {[Simple("cat", <<"file">>) EXCEPT !.subs = <<List(a)>>] : a \in Leaves}
    \cup {[Simple("cat", <<"file">>) EXCEPT !.hidden = <<List(a)>>, !.subs = <<List(b)>>] : a, b \in Leaves}
    \cup {Compound(k, <<List(a)>>, {}) : k \in {"function", "arithmetic for"}, a \in Leaves}

MCCommands == Leaves \cup Nested \cup {Compound("for", <<List(c)>>, {}) : c \in Nested}
=============================================================================
