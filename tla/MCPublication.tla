----------------------------- MODULE MCPublication -----------------------------
(* One repository of each kind, and a Maven release of one or two paths. *)
EXTENDS Publication

MCFiles == <<"jar", "pom">>
================================================================================
