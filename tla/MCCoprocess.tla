---- MODULE MCCoprocess ----
(* Constants of Coprocess for TLC. *)
EXTENDS Coprocess
====
