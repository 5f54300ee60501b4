---- MODULE MCLineEditor ----
(* Constants of LineEditor for TLC. *)
EXTENDS LineEditor

MCTexts == [A |-> "a", B |-> "b"]
====
