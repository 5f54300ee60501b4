---- MODULE MCConfigStore ----
(* Constants of ConfigStore for TLC. *)
EXTENDS ConfigStore
====
