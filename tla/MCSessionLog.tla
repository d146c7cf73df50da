---- MODULE MCSessionLog ----
(* SessionLog for TLC: the values are in the .cfg file. *)
EXTENDS SessionLog
====
